---------------------------- MODULE Spec2Model ----------------------------
(***************************************************************************)
(* A model of the vpk-plumber format engine: the little-endian byte codec, *)
(* the three header codecs and their probes, the format detector, the      *)
(* V1/V2 and Respawn entry codecs, the directory-tree codec, the writer    *)
(* and the content reconstruction of the V1 and Respawn workers.           *)
(*                                                                         *)
(* A file is a sequence of bytes (naturals in 0..255) and a stream is a    *)
(* file with a cursor.  Strings are sequences of bytes.                    *)
(***************************************************************************)
EXTENDS Integers, Sequences, FiniteSets, TLC

VARIABLES
    file,      \* bytes of the directory file the stream is opened on
    pos,       \* cursor of that stream
    out,       \* bytes of the file a write goes to
    hdr,       \* the in-memory header a header write is given
    probes,    \* the answer of each probe made on the stream so far
    ret,       \* the outcome of the last operation
    vpk,       \* the archive value in memory: header and tree
    back,      \* the archive value read back from the written file
    archives,  \* the files next to the directory file, by name
    opened,    \* the names of the files the last operation opened
    data,      \* the buffer the last read_file returned
    wav_entry, \* the CAM entry a WAV header is made for
    cam_file,  \* bytes of a CAM sidecar file
    cam,       \* what VPKRespawnCam::from_file made of the sidecar
    CAM_MAP,   \* the process-wide cache: sidecar path -> parsed sidecar
    lock,      \* the RwLock around CAM_MAP: who reads, who writes
    calls,     \* the cache call each thread is making, and where it is
    parses     \* how often each sidecar path was opened and parsed

\* The variables of the CAM cache
cacheVars == <<CAM_MAP, lock, calls, parses>>

\* The variables of the CAM sidecar and the WAV helpers
camVars == <<wav_entry, cam_file, cam, cacheVars>>

vars == <<file, pos, out, hdr, probes, ret, vpk, back, archives, opened, data,
          camVars>>

\* The variables of the workers, which the stream operations leave alone
workerVars == <<vpk, back, archives, opened, data>>

---------------------------------------------------------------------------
(* Program constants                                                       *)

VPK_SIGNATURE_V1 == 1437209140

VPK_VERSION_V1 == 1

VPK_SIGNATURE_V2 == 1437209140

VPK_VERSION_V2 == 2

VPK_SIGNATURE_REVPK == 1437209140

VPK_VERSION_REVPK == 196610

VPK_ENTRY_TERMINATOR == 65535

\* size_of::<VPKArchiveMD5SectionEntry>(): three u32 and sixteen bytes
SizeOfArchiveMD5Entry == 28

\* size_of::<VPKOtherMD5Section>(): three runs of sixteen bytes
SizeOfOtherMD5Section == 48

\* size_of::<VPKSignatureSection>(): u32, 160 bytes, u32, 128 bytes
SizeOfSignatureSection == 296

---------------------------------------------------------------------------
(* util/file.rs: the little-endian reader and writer                       *)

\* v shifted right by k bytes
RECURSIVE ShiftBytes(_, _)
ShiftBytes(v, k) == IF k = 0 THEN v ELSE ShiftBytes(v \div 256, k - 1)

\* uN::to_le_bytes, the value truncated to n bytes
to_le_bytes(v, n) == [i \in 1..n |-> ShiftBytes(v, i - 1) % 256]

\* uN::from_le_bytes.  The model checker's integers are 32 bits wide, so a
\* u32 at or above 2^31 is carried as v - 2^32 (its two's complement image):
\* the map stays one-to-one and to_le_bytes inverts it.  A wider value that
\* does not fit is an evaluation error, never a wrong number.
RECURSIVE FromLE(_, _)
FromLE(bs, i) ==
    IF i > Len(bs) THEN 0
    ELSE IF i = 4 /\ Len(bs) = 4 /\ bs[4] >= 128 THEN bs[4] - 256
    ELSE bs[i] + 256 * FromLE(bs, i + 1)

from_le_bytes(bs) == FromLE(bs, 1)

Max(a, b) == IF a >= b THEN a ELSE b

Min(a, b) == IF a <= b THEN a ELSE b

\* Read::read_exact on a File: n bytes at the cursor, or an error that
\* leaves the cursor at the end of the file (every byte left was consumed).
read_exact(f, p, n) ==
    IF p + n <= Len(f)
    THEN [ok |-> TRUE, bytes |-> SubSeq(f, p + 1, p + n), pos |-> p + n]
    ELSE [ok |-> FALSE, bytes |-> <<>>, pos |-> Max(p, Len(f))]

read_uN(f, p, n) ==
    LET r == read_exact(f, p, n)
    IN  [ok |-> r.ok, val |-> from_le_bytes(r.bytes), pos |-> r.pos]

read_u8(f, p) == read_uN(f, p, 1)

read_u16(f, p) == read_uN(f, p, 2)

read_u32(f, p) == read_uN(f, p, 4)

read_u64(f, p) == read_uN(f, p, 8)

\* Result::unwrap_or(0) of a read
unwrap_or_0(r) == IF r.ok THEN r.val ELSE 0

write_u8(o, v) == o \o to_le_bytes(v, 1)

write_u16(o, v) == o \o to_le_bytes(v, 2)

write_u32(o, v) == o \o to_le_bytes(v, 4)

write_u64(o, v) == o \o to_le_bytes(v, 8)

---------------------------------------------------------------------------
(* Header probes and the detector                                          *)

\* is_format without the seek back to the remembered cursor.
is_format_no_seek_back(f, p, sig, ver) ==
    LET signature == read_u32(f, p)
        version   == read_u32(f, signature.pos)
    IN  [ans |-> unwrap_or_0(signature) = sig /\ unwrap_or_0(version) = ver,
         pos |-> version.pos]

\* The shared body of the three is_format functions: remember the cursor,
\* read signature and version, seek back, compare.
is_format(f, p, sig, ver) ==
    LET signature == read_u32(f, p)
        version   == read_u32(f, signature.pos)
    IN  [ans |-> unwrap_or_0(signature) = sig /\ unwrap_or_0(version) = ver,
         pos |-> p]

VPKHeaderV1_is_format(f, p) == is_format(f, p, VPK_SIGNATURE_V1, VPK_VERSION_V1)

VPKHeaderV2_is_format(f, p) == is_format(f, p, VPK_SIGNATURE_V2, VPK_VERSION_V2)

VPKHeaderRespawn_is_format(f, p) ==
    is_format(f, p, VPK_SIGNATURE_REVPK, VPK_VERSION_REVPK)

\* detect_pak_format answering on the first probe's signature alone.
detect_pak_format_signature_only(f, p) ==
    LET a == is_format(f, p, VPK_SIGNATURE_V1, unwrap_or_0(read_u32(f, p + 4)))
    IN  IF a.ans THEN [fmt |-> "VPKVersion1", pos |-> a.pos]
        ELSE [fmt |-> "Unknown", pos |-> a.pos]

detect_pak_format(f, p) ==
    LET a == VPKHeaderV1_is_format(f, p)
        b == VPKHeaderV2_is_format(f, a.pos)
        c == VPKHeaderRespawn_is_format(f, b.pos)
    IN  IF a.ans THEN [fmt |-> "VPKVersion1", pos |-> a.pos]
        ELSE IF b.ans THEN [fmt |-> "VPKVersion2", pos |-> b.pos]
        ELSE IF c.ans THEN [fmt |-> "VPKRespawn", pos |-> c.pos]
        ELSE [fmt |-> "Unknown", pos |-> c.pos]

---------------------------------------------------------------------------
(* Header codecs                                                           *)

NoHeader == [signature |-> 0, version |-> 0, tree_size |-> 0]

\* VPKHeaderV1::from: signature, check, version, check, tree size.
VPKHeaderV1_from(f, p) ==
    LET signature == read_u32(f, p)
        version   == read_u32(f, signature.pos)
        tree_size == read_u32(f, version.pos)
    IN  IF ~signature.ok THEN [tag |-> "Util", hdr |-> NoHeader, pos |-> signature.pos]
        ELSE IF signature.val # VPK_SIGNATURE_V1
        THEN [tag |-> "InvalidSignature", hdr |-> NoHeader, pos |-> signature.pos]
        ELSE IF ~version.ok THEN [tag |-> "Util", hdr |-> NoHeader, pos |-> version.pos]
        ELSE IF version.val # VPK_VERSION_V1
        THEN [tag |-> "BadVersion", hdr |-> NoHeader, pos |-> version.pos]
        ELSE IF ~tree_size.ok THEN [tag |-> "Util", hdr |-> NoHeader, pos |-> tree_size.pos]
        ELSE [tag |-> "Ok",
              hdr |-> [signature |-> signature.val, version |-> version.val,
                       tree_size |-> tree_size.val],
              pos |-> tree_size.pos]

\* VPKHeaderV1::write: both checks precede the first write.
VPKHeaderV1_write(h, o) ==
    IF h.signature # VPK_SIGNATURE_V1 THEN [tag |-> "InvalidSignature", out |-> o]
    ELSE IF h.version # VPK_VERSION_V1 THEN [tag |-> "BadVersion", out |-> o]
    ELSE [tag |-> "Ok",
          out |-> write_u32(write_u32(write_u32(o, h.signature), h.version),
                            h.tree_size)]

\* VPKHeaderV2::from: each section size is checked as soon as it is read.
VPKHeaderV2_from(f, p) ==
    LET signature == read_u32(f, p)
        version   == read_u32(f, signature.pos)
        tree_size == read_u32(f, version.pos)
        fdss      == read_u32(f, tree_size.pos)
        amd5      == read_u32(f, fdss.pos)
        omd5      == read_u32(f, amd5.pos)
        sigsec    == read_u32(f, omd5.pos)
        Fail(t, r) == [tag |-> t, hdr |-> NoHeader, pos |-> r.pos]
    IN  IF ~signature.ok THEN Fail("Util", signature)
        ELSE IF signature.val # VPK_SIGNATURE_V2 THEN Fail("InvalidSignature", signature)
        ELSE IF ~version.ok THEN Fail("Util", version)
        ELSE IF version.val # VPK_VERSION_V2 THEN Fail("BadVersion", version)
        ELSE IF ~tree_size.ok THEN Fail("Util", tree_size)
        ELSE IF ~fdss.ok THEN Fail("Util", fdss)
        ELSE IF ~amd5.ok THEN Fail("Util", amd5)
        ELSE IF amd5.val % SizeOfArchiveMD5Entry # 0 THEN Fail("BadData", amd5)
        ELSE IF ~omd5.ok THEN Fail("Util", omd5)
        ELSE IF omd5.val # SizeOfOtherMD5Section THEN Fail("BadData", omd5)
        ELSE IF ~sigsec.ok THEN Fail("Util", sigsec)
        ELSE IF sigsec.val # 0 /\ sigsec.val # SizeOfSignatureSection
        THEN Fail("BadData", sigsec)
        ELSE [tag |-> "Ok",
              hdr |-> [signature |-> signature.val, version |-> version.val,
                       tree_size |-> tree_size.val,
                       file_data_section_size |-> fdss.val,
                       archive_md5_section_size |-> amd5.val,
                       other_md5_section_size |-> omd5.val,
                       signature_section_size |-> sigsec.val],
              pos |-> sigsec.pos]

\* VPKHeaderRespawn::from with the version checked before the signature.
VPKHeaderRespawn_from_version_first(f, p) ==
    LET signature == read_u32(f, p)
        version   == read_u32(f, signature.pos)
        tree_size == read_u32(f, version.pos)
        unknown   == read_u32(f, tree_size.pos)
        Fail(t, r) == [tag |-> t, hdr |-> NoHeader, pos |-> r.pos]
    IN  IF ~signature.ok THEN Fail("Util", signature)
        ELSE IF ~version.ok THEN Fail("Util", version)
        ELSE IF version.val # VPK_VERSION_REVPK THEN Fail("BadVersion", version)
        ELSE IF signature.val # VPK_SIGNATURE_REVPK THEN Fail("InvalidSignature", signature)
        ELSE IF ~tree_size.ok THEN Fail("Util", tree_size)
        ELSE IF ~unknown.ok THEN Fail("Util", unknown)
        ELSE IF unknown.val # 0 THEN Fail("BadData", unknown)
        ELSE [tag |-> "Ok",
              hdr |-> [signature |-> signature.val, version |-> version.val,
                       tree_size |-> tree_size.val, unknown |-> unknown.val],
              pos |-> unknown.pos]

\* VPKHeaderRespawn::from: signature, version, tree size, unknown (must be 0).
VPKHeaderRespawn_from(f, p) ==
    LET signature == read_u32(f, p)
        version   == read_u32(f, signature.pos)
        tree_size == read_u32(f, version.pos)
        unknown   == read_u32(f, tree_size.pos)
        Fail(t, r) == [tag |-> t, hdr |-> NoHeader, pos |-> r.pos]
    IN  IF ~signature.ok THEN Fail("Util", signature)
        ELSE IF signature.val # VPK_SIGNATURE_REVPK THEN Fail("InvalidSignature", signature)
        ELSE IF ~version.ok THEN Fail("Util", version)
        ELSE IF version.val # VPK_VERSION_REVPK THEN Fail("BadVersion", version)
        ELSE IF ~tree_size.ok THEN Fail("Util", tree_size)
        ELSE IF ~unknown.ok THEN Fail("Util", unknown)
        ELSE IF unknown.val # 0 THEN Fail("BadData", unknown)
        ELSE [tag |-> "Ok",
              hdr |-> [signature |-> signature.val, version |-> version.val,
                       tree_size |-> tree_size.val, unknown |-> unknown.val],
              pos |-> unknown.pos]

\* VPKHeaderRespawn::write: signature and version are checked, then the four
\* fields are written; the unknown field is written as it is.
VPKHeaderRespawn_write(h, o) ==
    IF h.signature # VPK_SIGNATURE_REVPK THEN [tag |-> "InvalidSignature", out |-> o]
    ELSE IF h.version # VPK_VERSION_REVPK THEN [tag |-> "BadVersion", out |-> o]
    ELSE [tag |-> "Ok",
          out |-> write_u32(write_u32(write_u32(write_u32(o, h.signature),
                                                h.version), h.tree_size),
                            h.unknown)]

---------------------------------------------------------------------------
(* util/file.rs: strings and byte runs                                     *)

\* Index of the first zero byte of f at or after index i, Len(f) + 1 if none.
RECURSIVE ZeroFrom(_, _)
ZeroFrom(f, i) ==
    IF i > Len(f) THEN Len(f) + 1
    ELSE IF f[i] = 0 THEN i
    ELSE ZeroFrom(f, i + 1)

\* String::from_utf8 on the byte runs of the model: ASCII is accepted, and a
\* byte at or above 128 (0xFF of a terminator) is rejected.
from_utf8_ok(bs) == \A i \in 1..Len(bs) : bs[i] < 128

\* VPKFileReader::read_string: one-byte reads up to a zero byte; a read at
\* the end of the file leaves the zero the buffer was initialised with, so
\* the end of the file ends the string like a terminator does.
read_string(f, p) ==
    LET z == ZeroFrom(f, p + 1)
        str == SubSeq(f, p + 1, z - 1)
    IN  [ok |-> from_utf8_ok(str), str |-> str, pos |-> Max(p, Min(z, Len(f)))]

\* VPKFileReader::read_bytes: one read into a buffer of count bytes, cut to
\* what the read returned.
read_bytes(f, p, count) ==
    LET n == Min(count, Max(Len(f) - p, 0))
    IN  [bytes |-> SubSeq(f, p + 1, p + n), pos |-> p + n]

write_string(o, str) == write_u8(o \o str, 0)

write_bytes(o, bytes) == o \o bytes

---------------------------------------------------------------------------
(* Entry codecs                                                            *)

NoEntry ==
    [crc |-> 0, preload_length |-> 0, archive_index |-> 0, entry_offset |-> 0,
     entry_length |-> 0, terminator |-> 0]

\* VPKDirectoryEntry::from without the terminator check.
VPKDirectoryEntry_from_unchecked(f, p) ==
    LET crc            == read_u32(f, p)
        preload_length == read_u16(f, crc.pos)
        archive_index  == read_u16(f, preload_length.pos)
        entry_offset   == read_u32(f, archive_index.pos)
        entry_length   == read_u32(f, entry_offset.pos)
        terminator     == read_u16(f, entry_length.pos)
    IN  IF ~terminator.ok
        THEN [tag |-> "Util", entry |-> NoEntry, pos |-> terminator.pos]
        ELSE [tag |-> "Ok",
              entry |-> [crc |-> crc.val, preload_length |-> preload_length.val,
                         archive_index |-> archive_index.val,
                         entry_offset |-> entry_offset.val,
                         entry_length |-> entry_length.val,
                         terminator |-> terminator.val],
              pos |-> terminator.pos]

\* VPKDirectoryEntry::from: six little-endian fields, then the terminator
\* check.  A failed read fails every read after it, so only the last read
\* needs to be looked at.
VPKDirectoryEntry_from(f, p) ==
    LET crc            == read_u32(f, p)
        preload_length == read_u16(f, crc.pos)
        archive_index  == read_u16(f, preload_length.pos)
        entry_offset   == read_u32(f, archive_index.pos)
        entry_length   == read_u32(f, entry_offset.pos)
        terminator     == read_u16(f, entry_length.pos)
    IN  IF ~terminator.ok
        THEN [tag |-> "Util", entry |-> NoEntry, pos |-> terminator.pos]
        ELSE IF terminator.val # VPK_ENTRY_TERMINATOR
        THEN [tag |-> "InvalidEntryTerminator", entry |-> NoEntry,
              pos |-> terminator.pos]
        ELSE [tag |-> "Ok",
              entry |-> [crc |-> crc.val, preload_length |-> preload_length.val,
                         archive_index |-> archive_index.val,
                         entry_offset |-> entry_offset.val,
                         entry_length |-> entry_length.val,
                         terminator |-> terminator.val],
              pos |-> terminator.pos]

\* VPKDirectoryEntry::write: the terminator check precedes the first write.
VPKDirectoryEntry_write(e, o) ==
    IF e.terminator # VPK_ENTRY_TERMINATOR
    THEN [tag |-> "InvalidEntryTerminator", out |-> o]
    ELSE [tag |-> "Ok",
          out |-> write_u16(write_u32(write_u32(write_u16(write_u16(
                      write_u32(o, e.crc), e.preload_length), e.archive_index),
                      e.entry_offset), e.entry_length), e.terminator)]

\* The file-part loop of VPKDirectoryEntryRespawn::from: an archive index,
\* then (unless it is 0xFFFF or the read ended at the end of the file) the
\* five other fields of the part.
RECURSIVE RespawnParts(_, _, _)
RespawnParts(f, p, parts) ==
    LET archive_index == read_u16(f, p)
        load_flags    == read_u16(f, archive_index.pos)
        texture_flags == read_u32(f, load_flags.pos)
        entry_offset  == read_u64(f, texture_flags.pos)
        entry_length  == read_u64(f, entry_offset.pos)
        uncompressed  == read_u64(f, entry_length.pos)
    IN  IF ~archive_index.ok
        THEN [tag |-> "Util", parts |-> parts, pos |-> archive_index.pos]
        ELSE IF archive_index.val = 65535 \/ archive_index.pos = Len(f)
        THEN [tag |-> "Ok", parts |-> parts, pos |-> archive_index.pos]
        ELSE IF ~uncompressed.ok
        THEN [tag |-> "Util", parts |-> parts, pos |-> uncompressed.pos]
        ELSE RespawnParts(f, uncompressed.pos,
                 Append(parts,
                        [archive_index |-> archive_index.val,
                         load_flags |-> load_flags.val,
                         texture_flags |-> texture_flags.val,
                         entry_offset |-> entry_offset.val,
                         entry_length |-> entry_length.val,
                         entry_length_uncompressed |-> uncompressed.val]))

NoEntryRespawn == [crc |-> 0, preload_length |-> 0, file_parts |-> <<>>]

VPKDirectoryEntryRespawn_from(f, p) ==
    LET crc            == read_u32(f, p)
        preload_length == read_u16(f, crc.pos)
        parts          == RespawnParts(f, preload_length.pos, <<>>)
    IN  IF ~preload_length.ok
        THEN [tag |-> "Util", entry |-> NoEntryRespawn, pos |-> preload_length.pos]
        ELSE IF parts.tag # "Ok"
        THEN [tag |-> parts.tag, entry |-> NoEntryRespawn, pos |-> parts.pos]
        ELSE [tag |-> "Ok",
              entry |-> [crc |-> crc.val, preload_length |-> preload_length.val,
                         file_parts |-> parts.parts],
              pos |-> parts.pos]

RECURSIVE WriteParts(_, _, _)
WriteParts(parts, i, o) ==
    IF i > Len(parts) THEN o
    ELSE WriteParts(parts, i + 1,
             write_u64(write_u64(write_u64(write_u32(write_u16(write_u16(o,
                 parts[i].archive_index), parts[i].load_flags),
                 parts[i].texture_flags), parts[i].entry_offset),
                 parts[i].entry_length), parts[i].entry_length_uncompressed))

\* VPKDirectoryEntryRespawn::write: crc, preload length, every part, then
\* the terminator.
VPKDirectoryEntryRespawn_write(e, o) ==
    [tag |-> "Ok",
     out |-> write_u16(WriteParts(e.file_parts, 1,
                                  write_u16(write_u32(o, e.crc), e.preload_length)),
                       VPK_ENTRY_TERMINATOR)]

\* The DirEntry trait: the entry codec of a worker.
DirEntry_from(kind, f, p) ==
    IF kind = "v1" THEN VPKDirectoryEntry_from(f, p)
    ELSE VPKDirectoryEntryRespawn_from(f, p)

DirEntry_write(kind, e, o) ==
    IF kind = "v1" THEN VPKDirectoryEntry_write(e, o)
    ELSE VPKDirectoryEntryRespawn_write(e, o)

---------------------------------------------------------------------------
(* std::path::Path on the paths of a tree: components separated by '/',    *)
(* none of them empty, "." or "..".                                        *)

Slash == 47

Dot == 46

\* Index of the last occurrence of byte c in s, 0 if there is none.
RECURSIVE LastIndexOf(_, _, _)
LastIndexOf(s, c, i) ==
    IF i = 0 THEN 0
    ELSE IF s[i] = c THEN i
    ELSE LastIndexOf(s, c, i - 1)

Path_file_name(s) == SubSeq(s, LastIndexOf(s, Slash, Len(s)) + 1, Len(s))

\* Path::parent, with unwrap_or(Path::new("")).
Path_parent(s) ==
    LET i == LastIndexOf(s, Slash, Len(s))
    IN  IF i = 1 THEN <<Slash>> ELSE SubSeq(s, 1, i - 1)

\* Path::extension with unwrap_or(""): what follows the last dot of the file
\* name, nothing when the name has no dot or only a leading one.
Path_extension(s) ==
    LET name == Path_file_name(s)
        i    == LastIndexOf(name, Dot, Len(name))
    IN  IF i <= 1 THEN <<>> ELSE SubSeq(name, i + 1, Len(name))

\* Path::file_stem with unwrap_or("").
Path_file_stem(s) ==
    LET name == Path_file_name(s)
        i    == LastIndexOf(name, Dot, Len(name))
    IN  IF i <= 1 THEN name ELSE SubSeq(name, 1, i - 1)

\* format!("{path}/{file_name}.{extension}")
FilePath(path, file_name, extension) ==
    path \o <<Slash>> \o file_name \o <<Dot>> \o extension

---------------------------------------------------------------------------
(* The directory tree: files and preload, two maps keyed by file path      *)

\* HashMap::new()
EmptyMap == <<>>

\* HashMap::insert: the value of an existing key is replaced.
Insert(map, k, v) == [x \in DOMAIN map \cup {k} |-> IF x = k THEN v ELSE map[x]]

VPKTree_new == [files |-> EmptyMap, preload |-> EmptyMap]

\* The one member of a one-member set.  The({body : x \in {e}}) is body
\* with x standing for the value of e, which is evaluated once.
The(S) == CHOOSE x \in S : TRUE

\* One step of the loops of VPKTree::from with the string s read at the
\* cursor of st and, after a file name, the entry e decoded after it.
RECURSIVE TreeLoop(_, _, _, _, _, _, _)
TreeStep(kind, f, limit, level, extension, path, st, s, e) ==
    LET pl == read_bytes(f, e.pos, e.entry.preload_length)
        file_path == FilePath(path, s.str, extension)
    IN  IF level = "extension" /\ ~(st.pos < limit)
        THEN [tag |-> "Ok", tree |-> st.tree, pos |-> st.pos]
        ELSE IF ~s.ok
        THEN [tag |-> "Util", tree |-> VPKTree_new, pos |-> s.pos]
        ELSE IF level = "extension"
        THEN IF s.str = <<>>
             THEN [tag |-> "Ok", tree |-> st.tree, pos |-> s.pos]
             ELSE TreeLoop(kind, f, limit, "path", s.str, <<>>,
                           [st EXCEPT !.pos = s.pos])
        ELSE IF level = "path"
        THEN IF s.str = <<>> \/ s.pos > limit
             THEN TreeLoop(kind, f, limit, "extension", <<>>, <<>>,
                           [st EXCEPT !.pos = s.pos])
             ELSE TreeLoop(kind, f, limit, "file_name", extension, s.str,
                           [st EXCEPT !.pos = s.pos])
        ELSE IF s.str = <<>> \/ s.pos > limit
        THEN TreeLoop(kind, f, limit, "path", extension, <<>>,
                      [st EXCEPT !.pos = s.pos])
        ELSE IF e.tag # "Ok"
        THEN [tag |-> e.tag, tree |-> VPKTree_new, pos |-> e.pos]
        ELSE IF e.entry.preload_length > 0
        THEN TreeLoop(kind, f, limit, "file_name", extension, path,
                 [pos |-> pl.pos,
                  tree |-> [files |-> Insert(st.tree.files, file_path, e.entry),
                            preload |-> Insert(st.tree.preload, file_path,
                                               pl.bytes)]])
        ELSE TreeLoop(kind, f, limit, "file_name", extension, path,
                 [pos |-> e.pos,
                  tree |-> [files |-> Insert(st.tree.files, file_path, e.entry),
                            preload |-> st.tree.preload]])

\* The three nested loops of VPKTree::from, one string read per step: an
\* extension (read while the cursor is before start + size; the empty one
\* ends the tree), a path and a file name (the empty one, or a cursor past
\* start + size after the read, closes the level), then the entry and, for
\* a preload length above 0, the preload bytes.
TreeLoop(kind, f, limit, level, extension, path, state) ==
    The({The({The({TreeStep(kind, f, limit, level, extension, path, st, s, e) :
                     e \in {IF level = "file_name" /\ s.ok /\ s.str # <<>>
                                 /\ s.pos <= limit
                             THEN DirEntry_from(kind, f, s.pos)
                             ELSE [tag |-> "none", entry |-> NoEntry,
                                   pos |-> s.pos]}}) :
                s \in {read_string(f, st.pos)}}) :
           st \in {state}})

\* VPKTree::from(file, start, size)
VPKTree_from(kind, f, start, size) ==
    TreeLoop(kind, f, start + size, "extension", <<>>, <<>>,
             [pos |-> start, tree |-> VPKTree_new])

\* Every order in which a HashMap may hand out the members of S.
RECURSIVE Orders(_)
Orders(S) ==
    IF S = {} THEN {<<>>}
    ELSE UNION {{<<x>> \o q : q \in Orders(S \ {x})} : x \in S}

\* The writes of one (file_name, entry, preload) triple of VPKTree::write:
\* the name, the entry, and the preload bytes if the preload map has the
\* path.  A failed entry write ends the tree write with what was written.
WriteFile(kind, tree, file_path, w) ==
    LET named == write_string(w.out, Path_file_stem(file_path))
        e     == DirEntry_write(kind, tree.files[file_path], named)
    IN  IF w.tag # "Ok" THEN w
        ELSE IF e.tag # "Ok" THEN e
        ELSE IF file_path \in DOMAIN tree.preload
        THEN [tag |-> "Ok", out |-> write_bytes(e.out, tree.preload[file_path])]
        ELSE e

\* The Vec of one directory, in the order the files map was iterated.
RECURSIVE WriteFiles(_, _, _, _, _, _, _)
WriteFiles(kind, tree, order, i, extension, dir, w) ==
    IF i > Len(order) THEN w
    ELSE IF Path_extension(order[i]) = extension /\ Path_parent(order[i]) = dir
    THEN WriteFiles(kind, tree, order, i + 1, extension, dir,
                    WriteFile(kind, tree, order[i], w))
    ELSE WriteFiles(kind, tree, order, i + 1, extension, dir, w)

Separator(w) == IF w.tag # "Ok" THEN w ELSE [w EXCEPT !.out = write_u8(w.out, 0)]

WriteName(w, str) ==
    IF w.tag # "Ok" THEN w ELSE [w EXCEPT !.out = write_string(w.out, str)]

\* The directories of one extension, in the order dirs.
RECURSIVE WriteDirs(_, _, _, _, _, _, _)
WriteDirs(kind, tree, order, extension, dirs, j, w) ==
    IF j > Len(dirs) THEN w
    ELSE WriteDirs(kind, tree, order, extension, dirs, j + 1,
             Separator(WriteFiles(kind, tree, order, 1, extension, dirs[j],
                                  WriteName(w, dirs[j]))))

DirsOf(tree, extension) ==
    {Path_parent(x) : x \in {y \in DOMAIN tree.files : Path_extension(y) = extension}}

\* The extensions in the order exts; dir_order gives, for each extension,
\* the order of its directory map.
RECURSIVE WriteExtensions(_, _, _, _, _, _, _)
WriteExtensions(kind, tree, order, exts, dir_order, k, w) ==
    IF k > Len(exts) THEN w
    ELSE WriteExtensions(kind, tree, order, exts, dir_order, k + 1,
             Separator(WriteDirs(kind, tree, order, exts[k], dir_order[exts[k]], 1,
                                 WriteName(w, exts[k]))))

ExtensionsOf(tree) == {Path_extension(x) : x \in DOMAIN tree.files}

\* The iteration orders VPKTree::write depends on: of the files map, of
\* the extension map and of each directory map.
IterationOrders(tree) ==
    [files : Orders(DOMAIN tree.files),
     exts  : Orders(ExtensionsOf(tree)),
     dirs  : {d \in [ExtensionsOf(tree) -> UNION {Orders(DirsOf(tree, x)) :
                                                    x \in ExtensionsOf(tree)}] :
                \A x \in ExtensionsOf(tree) : d[x] \in Orders(DirsOf(tree, x))}]

\* VPKTree::write under the iteration orders it.
VPKTree_write(kind, tree, it, o) ==
    WriteExtensions(kind, tree, it.files, it.exts, it.dirs, 1,
                    [tag |-> "Ok", out |-> o])

---------------------------------------------------------------------------
(* The workers: new, from_file and write_dir                               *)

\* size_of::<VPKHeaderV1>(): three u32
SizeOfVPKHeaderV1 == 12

\* No archive value: nothing was loaded, or from_file returned an error.
NoVPK == [kind |-> "none", origin |-> "none", header |-> NoHeader, tree |-> VPKTree_new]

\* Option<Vec<u8>>
None == [some |-> FALSE, bytes |-> <<>>]

Some(bytes) == [some |-> TRUE, bytes |-> bytes]

VPKVersion1_new ==
    [kind |-> "v1", origin |-> "new",
     header |-> [signature |-> VPK_SIGNATURE_V1, version |-> VPK_VERSION_V1,
                 tree_size |-> 0],
     tree |-> VPKTree_new]

VPKRespawn_new ==
    [kind |-> "respawn", origin |-> "new",
     header |-> [signature |-> VPK_SIGNATURE_REVPK, version |-> VPK_VERSION_REVPK,
                 tree_size |-> 0, unknown |-> 0],
     tree |-> VPKTree_new, archive_cams |-> EmptyMap]

PakWorker_new(kind) == IF kind = "v1" THEN VPKVersion1_new ELSE VPKRespawn_new

Header_from(kind, f, p) ==
    IF kind = "v1" THEN VPKHeaderV1_from(f, p) ELSE VPKHeaderRespawn_from(f, p)

Header_write(kind, h, o) ==
    IF kind = "v1" THEN VPKHeaderV1_write(h, o) ELSE VPKHeaderRespawn_write(h, o)

\* from_file of VPKVersion1 and VPKRespawn: the header, then the tree from
\* the position the header read ended at, tree_size bytes long.
PakWorker_from_file(kind, f, p) ==
    The({IF h.tag # "Ok"
         THEN [tag |-> h.tag, pos |-> h.pos, vpk |-> NoVPK]
         ELSE The({IF t.tag # "Ok"
                   THEN [tag |-> t.tag, pos |-> t.pos, vpk |-> NoVPK]
                   ELSE [tag |-> "Ok", pos |-> t.pos,
                         vpk |-> IF kind = "v1"
                                 THEN [kind |-> kind, origin |-> "file",
                                       header |-> h.hdr, tree |-> t.tree]
                                 ELSE [kind |-> kind, origin |-> "file",
                                       header |-> h.hdr, tree |-> t.tree,
                                       archive_cams |-> EmptyMap]] :
                     t \in {VPKTree_from(kind, f, h.pos, h.hdr.tree_size)}}) :
           h \in {Header_from(kind, f, p)}})

\* write_dir of VPKVersion1 and VPKRespawn: File::create empties the output
\* file, then the header and the tree are written; the first error ends
\* the call with the bytes written so far in the file.
PakWriter_write_dir(v, it) ==
    LET h == Header_write(v.kind, v.header, <<>>)
    IN  IF h.tag # "Ok" THEN h
        ELSE VPKTree_write(v.kind, v.tree, it, h.out)

---------------------------------------------------------------------------
(* CRC-32/ISO-HDLC (crc crate): reflected polynomial 0xEDB88320, initial   *)
(* value and final xor 0xFFFFFFFF.  A 32-bit register is a pair <<hi, lo>>  *)
(* of 16-bit halves.                                                       *)

\* Bitwise exclusive or of two naturals below 2^n.
RECURSIVE Xor(_, _, _)
Xor(a, b, n) ==
    IF n = 0 THEN 0
    ELSE ((a + b) % 2) + 2 * Xor(a \div 2, b \div 2, n - 1)

\* One step of the bitwise algorithm: shift right, and xor the polynomial
\* in when the bit shifted out was 1.
CrcShift(r) ==
    LET hi == r[1] \div 2
        lo == (r[2] \div 2) + 32768 * (r[1] % 2)
    IN  IF r[2] % 2 = 1 THEN <<Xor(hi, 60856, 16), Xor(lo, 33568, 16)>>
        ELSE <<hi, lo>>

RECURSIVE CrcShifts(_, _)
CrcShifts(r, k) == IF k = 0 THEN r ELSE CrcShifts(The({CrcShift(r)}), k - 1)

\* The table of the byte-wise algorithm.
CrcTable == [n \in 0..255 |-> CrcShifts(<<0, n>>, 8)]

\* digest.update for one byte.
CrcByte(r, b) ==
    LET t == CrcTable[Xor(r[2] % 256, b, 8)]
    IN  <<Xor(t[1], r[1] \div 256, 16),
          Xor(t[2], (r[2] \div 256) + 256 * (r[1] % 256), 16)>>

\* digest.update for the bytes lo..hi of a run, the first half before the
\* second.
RECURSIVE CrcUpdate(_, _, _, _)
CrcUpdate(r, bytes, lo, hi) ==
    IF lo > hi THEN r
    ELSE IF lo = hi THEN CrcByte(r, bytes[lo])
    ELSE The({CrcUpdate(half, bytes, ((lo + hi) \div 2) + 1, hi) :
                half \in {CrcUpdate(r, bytes, lo, (lo + hi) \div 2)}})

\* A u32 given by its halves, as the integer the byte codec carries it as.
FromHalves(r) ==
    IF r[1] >= 32768 THEN (r[1] - 65536) * 65536 + r[2] ELSE r[1] * 65536 + r[2]

\* Crc::<u32>::new(&CRC_32_ISO_HDLC), digest.update(bytes), digest.finalize()
crc32(bytes) ==
    LET r == CrcUpdate(<<65535, 65535>>, bytes, 1, Len(bytes))
    IN  FromHalves(<<65535 - r[1], 65535 - r[2]>>)

---------------------------------------------------------------------------
(* u32 arithmetic.  A u32 is a pair <<hi, lo>> of 16-bit halves; every      *)
(* operation gives the wrapped value and whether it wrapped.  A build with  *)
(* overflow checks panics where it wrapped, a build without them goes on    *)
(* with the wrapped value.                                                 *)

ToHalves(v) == <<(v \div 65536) % 65536, v % 65536>>

AddU32(a, b) ==
    LET lo == a[2] + b[2]
        hi == a[1] + b[1] + (lo \div 65536)
    IN  [val |-> <<hi % 65536, lo % 65536>>, wrapped |-> hi >= 65536]

SubU32(a, b) ==
    LET lo == a[2] - b[2]
        hi == a[1] - b[1] + (lo \div 65536)
    IN  [val |-> <<hi % 65536, lo % 65536>>, wrapped |-> hi < 0]

\* a * k for a factor k below 2^15
MulU32(a, k) ==
    LET lo == a[2] * k
        hi == a[1] * k + (lo \div 65536)
    IN  [val |-> <<hi % 65536, lo % 65536>>, wrapped |-> hi >= 65536]

\* a / k for a divisor k below 2^15
DivU32(a, k) ==
    <<a[1] \div k, ((a[1] % k) * 65536 + a[2]) \div k>>

\* n > u64::from(a) for a u64 n below 2^31
GreaterThanU32(n, a) == a[1] < 32768 /\ n > a[1] * 65536 + a[2]

\* iter().map(|e| e as u32).sum() over u64 lengths below 2^31
RECURSIVE SumU32(_, _, _)
SumU32(lens, i, acc) ==
    IF i > Len(lens) THEN acc
    ELSE LET s == AddU32(acc.val, ToHalves(lens[i]))
         IN  SumU32(lens, i + 1,
                    [val |-> s.val, wrapped |-> acc.wrapped \/ s.wrapped])

---------------------------------------------------------------------------
(* pak/revpk/cam.rs and the CAM entries of pak/revpk/format.rs             *)

\* OsStr::eq_ignore_ascii_case on an extension
to_ascii_lowercase(b) == IF b >= 65 /\ b <= 90 THEN b + 32 ELSE b

eq_ignore_ascii_case(a, b) ==
    /\ Len(a) = Len(b)
    /\ \A i \in 1..Len(a) : to_ascii_lowercase(a[i]) = to_ascii_lowercase(b[i])

\* The test that does not fold the letter case
is_wav_case_sensitive(file_path) == Path_extension(file_path) = <<119, 97, 118>>

\* Path::new(file_path).extension().is_some_and(|ext|
\*     ext.eq_ignore_ascii_case("wav"))
is_wav(file_path) == eq_ignore_ascii_case(Path_extension(file_path), <<119, 97, 118>>)

\* VPKRespawnCamEntry::default(entry): the sizes are u32 sums of the
\* lengths of the parts, sample_count is (original_size - 44 + 8) / 2.  The
\* first part is indexed without a test: no part is a panic.
VPKRespawnCamEntry_default(entry) ==
    LET parts == entry.file_parts
        original ==
            SumU32([i \in 1..Len(parts) |-> parts[i].entry_length_uncompressed],
                   1, [val |-> <<0, 0>>, wrapped |-> FALSE])
        compressed ==
            SumU32([i \in 1..Len(parts) |-> parts[i].entry_length],
                   1, [val |-> <<0, 0>>, wrapped |-> FALSE])
        minus44 == SubU32(original.val, <<0, 44>>)
        plus8 == AddU32(minus44.val, <<0, 8>>)
    IN  [panic |-> parts = <<>>,
         wrapped |-> original.wrapped \/ compressed.wrapped
                     \/ minus44.wrapped \/ plus8.wrapped,
         cam |-> [magic |-> <<50398, 7168>>,
                  original_size |-> original.val,
                  compressed_size |-> compressed.val,
                  sample_rate |-> <<0, 44100>>,
                  channels |-> 1,
                  sample_count |-> DivU32(plus8.val, 2),
                  header_size |-> <<0, 44>>,
                  vpk_content_offset |->
                      IF parts = <<>> THEN 0 ELSE parts[1].entry_offset]]

\* to_le_bytes of a u32 given by its halves
HalvesLE(a) == <<a[2] % 256, a[2] \div 256, a[1] % 256, a[1] \div 256>>

\* create_wav_header: 44 bytes
create_wav_header(cam_entry) ==
    LET twice == MulU32(cam_entry.sample_count, 2)
        file_len == MulU32(twice.val, cam_entry.channels)
        minus8 == SubU32(file_len.val, <<0, 8>>)
        riff_len == AddU32(minus8.val, <<0, 44>>)
        rate16 == MulU32(cam_entry.sample_rate, 16)
        rate16ch == MulU32(rate16.val, cam_entry.channels)
        bytes_per_sec == DivU32(rate16ch.val, 8)
        block_align == (16 * cam_entry.channels) \div 8
    IN  [wrapped |-> twice.wrapped \/ file_len.wrapped \/ minus8.wrapped
                     \/ riff_len.wrapped \/ rate16.wrapped \/ rate16ch.wrapped,
         bytes |-> <<82, 73, 70, 70>> \o HalvesLE(riff_len.val)
                   \o <<87, 65, 86, 69>> \o <<102, 109, 116, 32>>
                   \o <<16, 0, 0, 0>> \o <<1, 0>>
                   \o <<cam_entry.channels, 0>>
                   \o HalvesLE(cam_entry.sample_rate)
                   \o HalvesLE(bytes_per_sec)
                   \o <<block_align % 256, block_align \div 256>>
                   \o <<16, 0>> \o <<100, 97, 116, 97>>
                   \o HalvesLE(file_len.val)]

\* The index of the first byte of f at or after index i that is not 0xCB,
\* Len(f) + 1 if there is none.
RECURSIVE NotCBFrom(_, _)
NotCBFrom(f, i) ==
    IF i > Len(f) THEN Len(f) + 1
    ELSE IF f[i] # 203 THEN i
    ELSE NotCBFrom(f, i + 1)

\* seek_to_wav_data on a file with the cursor at p: 44 bytes forward, then
\* one-byte reads until a byte is not 0xCB, then one byte back.  A read at
\* the end of the file reads nothing and leaves the 0 the byte was
\* initialised with, and the cursor still goes one byte back.
seek_to_wav_data(f, p) ==
    LET start == p + 44
        c == NotCBFrom(f, start + 1) - 1
        res == IF c < Len(f) THEN c ELSE Max(c, start) - 1
    IN  [val |-> 44 + res - start, pos |-> res]

\* seek_to_wav_data_mem_map: the same walk by index, which panics when it
\* leaves the mapping.
seek_to_wav_data_mem_map(f, start_pos) ==
    LET c == NotCBFrom(f, start_pos + 44 + 1) - 1
    IN  [panic |-> start_pos + 44 >= Len(f) \/ c >= Len(f),
         val |-> c - start_pos]

\* util/lzham.rs decompress(src, dst_len): the LZHAM codec is a foreign
\* library; what the callers rely on is that the result is a function of
\* src and has at most dst_len bytes.  The stand-in repeats every byte of
\* src twice and cuts the result to dst_len bytes.
decompress(src, dst_len) ==
    LET twice == [i \in 1..(2 * Len(src)) |-> src[(i + 1) \div 2]]
    IN  SubSeq(twice, 1, Min(dst_len, Len(twice)))

---------------------------------------------------------------------------
(* The output file of an extraction: its bytes and the write cursor        *)

\* File::create: an empty file, the cursor at 0
File_create == [bytes |-> <<>>, cur |-> 0]

\* File::set_len: cut, or extended with zero bytes; the cursor stays.
set_len(o, n) ==
    [o EXCEPT !.bytes = [i \in 1..n |-> IF i <= Len(o.bytes) THEN o.bytes[i] ELSE 0]]

\* write_all at the cursor: a gap between the end of the file and the
\* cursor reads as zero bytes.
write_all(o, bs) ==
    LET n == Max(Len(o.bytes), o.cur + Len(bs))
    IN  [bytes |-> [i \in 1..n |->
                       IF i > o.cur /\ i <= o.cur + Len(bs) THEN bs[i - o.cur]
                       ELSE IF i <= Len(o.bytes) THEN o.bytes[i]
                       ELSE 0],
         cur |-> o.cur + Len(bs)]

---------------------------------------------------------------------------
(* PakReader for VPKVersion1 (pak/v1.rs).  dir is the directory file        *)
(* "{vpk_name}_dir.vpk", disk maps an archive index to the bytes of the     *)
(* archive "{vpk_name}_{index:0>3}.vpk" when that file exists, mmaps maps   *)
(* an archive index to the bytes of the mapping the caller supplied.       *)

DirName == [dir |-> TRUE, index |-> 0]

ArchiveName(index) == [dir |-> FALSE, index |-> index]

\* What a reading operation leaves: the result, the bytes returned, the
\* output file if one was created (created: create_dir_all on the parent
\* of the output path and File::create ran), the files opened, and the bytes fed to
\* the CRC digest if the comparison with the stored crc was reached.
Outcome(tag, why, bytes, created, o, names, checked, fed) ==
    [tag |-> tag, why |-> why, data |-> bytes, created |-> created,
     out |-> o.bytes, opened |-> names, checked |-> checked, fed |-> fed]

\* The lookup placed after create_dir_all and File::create
MissingEntry_after_create(tag, why) ==
    Outcome(tag, why, <<>>, TRUE, File_create, {}, FALSE, <<>>)

\* tree.files.get(file_path) found nothing: the first statement of every
\* operation returns before create_dir_all, File::create and File::open.
MissingEntry(tag, why) ==
    Outcome(tag, why, <<>>, FALSE, File_create, {}, FALSE, <<>>)

\* The archive an entry with entry_length > 0 is read from, opened and
\* positioned: the directory file when archive_index is 0xFF7F, at the end
\* of the tree plus entry_offset, and else the numbered archive, at
\* entry_offset.
V1Archive(v, entry, dir, disk) ==
    IF entry.archive_index = 65407
    THEN [name |-> DirName, ok |-> TRUE, bytes |-> dir,
          pos |-> SizeOfVPKHeaderV1 + v.header.tree_size + entry.entry_offset]
    ELSE [name |-> ArchiveName(entry.archive_index),
          ok |-> entry.archive_index \in DOMAIN disk,
          bytes |-> IF entry.archive_index \in DOMAIN disk
                    THEN disk[entry.archive_index] ELSE <<>>,
          pos |-> entry.entry_offset]

\* VPKVersion1::read_file
VPKVersion1_read_file(v, dir, disk, file_path) ==
    IF file_path \notin DOMAIN v.tree.files
    THEN MissingEntry("None", "entry")
    ELSE LET entry == v.tree.files[file_path]
             a == V1Archive(v, entry, dir, disk)
         IN  IF entry.preload_length > 0 /\ file_path \notin DOMAIN v.tree.preload
             THEN Outcome("None", "preload", <<>>, FALSE, File_create, {}, FALSE, <<>>)
             ELSE IF entry.entry_length > 0 /\ ~a.ok
             THEN Outcome("None", "open", <<>>, FALSE, File_create, {a.name},
                          FALSE, <<>>)
             ELSE \* buf: the preload run, then one read of entry_length bytes
                  The({IF crc32(buf) = entry.crc
                       THEN Outcome("Some", "", buf, FALSE, File_create,
                                    IF entry.entry_length > 0 THEN {a.name} ELSE {},
                                    TRUE, buf)
                       ELSE Outcome("None", "crc", <<>>, FALSE, File_create,
                                    IF entry.entry_length > 0 THEN {a.name} ELSE {},
                                    TRUE, buf) :
                         buf \in {(IF entry.preload_length > 0
                                   THEN v.tree.preload[file_path] ELSE <<>>)
                                  \o (IF entry.entry_length > 0
                                      THEN read_bytes(a.bytes, a.pos,
                                                      entry.entry_length).bytes
                                      ELSE <<>>)}})

\* The copy loop of extract_file: reads of min(1 MiB, remaining) bytes, each
\* written to the output and fed to the digest, until nothing remains or a
\* read returns no byte.
RECURSIVE V1CopyLoop(_, _, _, _, _)
V1CopyLoop(bytes, p, remaining, o, fed) ==
    IF remaining = 0 THEN [empty |-> FALSE, out |-> o, fed |-> fed]
    ELSE The({IF chunk.bytes = <<>>
              THEN [empty |-> TRUE, out |-> o, fed |-> fed]
              ELSE V1CopyLoop(bytes, chunk.pos,
                              IF remaining >= Len(chunk.bytes)
                              THEN remaining - Len(chunk.bytes) ELSE 0,
                              write_all(o, chunk.bytes), fed \o chunk.bytes) :
                chunk \in {read_bytes(bytes, p, Min(1024 * 1024, remaining))}})

\* The comparison that ends extract_file and extract_file_mem_map.
V1Verdict(entry, o, names, fed) ==
    IF crc32(fed) = entry.crc
    THEN Outcome("Ok", "", <<>>, TRUE, o, names, TRUE, fed)
    ELSE Outcome("BadData", "CRC must match", <<>>, TRUE, o, names, TRUE, fed)

\* VPKVersion1::extract_file
VPKVersion1_extract_file(v, dir, disk, file_path) ==
    IF file_path \notin DOMAIN v.tree.files
    THEN MissingEntry("FileNotFound", "")
    ELSE LET entry == v.tree.files[file_path]
             created == set_len(File_create, entry.entry_length)
             a == V1Archive(v, entry, dir, disk)
         IN  IF entry.preload_length > 0 /\ file_path \notin DOMAIN v.tree.preload
             THEN Outcome("DataNotFound", "", <<>>, TRUE, created, {}, FALSE, <<>>)
             ELSE The({IF entry.entry_length = 0
                       THEN V1Verdict(entry, written, {}, written.bytes)
                       ELSE IF ~a.ok
                       THEN Outcome("Io", "open", <<>>, TRUE, written, {a.name},
                                    FALSE, <<>>)
                       ELSE The({IF c.empty
                                 THEN Outcome("BadData", "Archive is empty", <<>>,
                                              TRUE, c.out, {a.name}, FALSE, <<>>)
                                 ELSE V1Verdict(entry, c.out, {a.name}, c.fed) :
                                   c \in {V1CopyLoop(a.bytes, a.pos,
                                                     entry.entry_length, written,
                                                     IF entry.preload_length > 0
                                                     THEN v.tree.preload[file_path]
                                                     ELSE <<>>)}}) :
                         written \in {IF entry.preload_length > 0
                                      THEN write_all(created,
                                                     v.tree.preload[file_path])
                                      ELSE created}})

\* The copy loop of extract_file_mem_map: slices of min(1 MiB, remaining)
\* bytes from index i; a slice that leaves the mapping is a panic.
RECURSIVE V1SliceLoop(_, _, _, _, _)
V1SliceLoop(bytes, i, remaining, o, fed) ==
    IF remaining = 0 THEN [panic |-> FALSE, out |-> o, fed |-> fed]
    ELSE IF i + Min(1024 * 1024, remaining) > Len(bytes)
    THEN [panic |-> TRUE, out |-> o, fed |-> fed]
    ELSE The({V1SliceLoop(bytes, i + Len(chunk), remaining - Len(chunk),
                          write_all(o, chunk), fed \o chunk) :
                chunk \in {SubSeq(bytes, i + 1, i + Min(1024 * 1024, remaining))}})

\* VPKVersion1::extract_file_mem_map
VPKVersion1_extract_file_mem_map(v, mmaps, file_path) ==
    IF file_path \notin DOMAIN v.tree.files
    THEN MissingEntry("FileNotFound", "")
    ELSE LET entry == v.tree.files[file_path]
             created == set_len(File_create, entry.entry_length)
         IN  IF entry.preload_length > 0 /\ file_path \notin DOMAIN v.tree.preload
             THEN Outcome("DataNotFound", "", <<>>, TRUE, created, {}, FALSE, <<>>)
             ELSE The({IF entry.entry_length = 0
                       THEN V1Verdict(entry, written, {}, written.bytes)
                       ELSE IF entry.archive_index \notin DOMAIN mmaps
                       THEN Outcome("MemoryMappedFileNotFound", "", <<>>, TRUE,
                                    written, {}, FALSE, <<>>)
                       ELSE The({IF c.panic
                                 THEN Outcome("panic", "slice", <<>>, TRUE, c.out,
                                              {}, FALSE, <<>>)
                                 ELSE V1Verdict(entry, c.out, {}, c.fed) :
                                   c \in {V1SliceLoop(mmaps[entry.archive_index],
                                                      entry.entry_offset,
                                                      entry.entry_length, written,
                                                      IF entry.preload_length > 0
                                                      THEN v.tree.preload[file_path]
                                                      ELSE <<>>)}}) :
                         written \in {IF entry.preload_length > 0
                                      THEN write_all(created,
                                                     v.tree.preload[file_path])
                                      ELSE created}})

---------------------------------------------------------------------------
(* PakReader for VPKRespawn (pak/revpk/format.rs).  checks says whether    *)
(* the build panics on integer overflow.                                   *)

\* The CAM entry of a WAV target: the one archive_cams holds for the
\* archive and the offset of the first part, and else the default one.
CamEntryFor(v, entry) ==
    LET part == entry.file_parts[1]
    IN  IF part.archive_index \in DOMAIN v.archive_cams
           /\ part.entry_offset
                  \in DOMAIN v.archive_cams[part.archive_index].entries
        THEN [panic |-> FALSE, wrapped |-> FALSE,
              cam |-> v.archive_cams[part.archive_index].entries[part.entry_offset]]
        ELSE VPKRespawnCamEntry_default(entry)

\* u64::from of a u32 below 2^31
U32Nat(a) == a[1] * 65536 + a[2]

\* Vec::truncate(len as usize) for a u32 len
truncate(bs, a) ==
    IF GreaterThanU32(Len(bs), a) THEN SubSeq(bs, 1, U32Nat(a)) ELSE bs

\* The state of a part loop: whether it still runs, the buffer or output
\* file, the digest input, the index of the open archive, the archives
\* opened and total_len.
PartState(tag, why, buf, o, fed, index, names, total_len) ==
    [tag |-> tag, why |-> why, buf |-> buf, out |-> o, fed |-> fed,
     index |-> index, names |-> names, total_len |-> total_len]

Stopped(s, tag, why, names) == [s EXCEPT !.tag = tag, !.why = why, !.names = names]

\* One part with entry_length_uncompressed > 0 in read_file.
ReadFilePart(part, first, wav, expected_len, checks, disk, s) ==
    LET reopen == part.archive_index # s.index
        present == part.archive_index \in DOMAIN disk
        names == IF reopen THEN s.names \cup {ArchiveName(part.archive_index)}
                 ELSE s.names
        f == IF present THEN disk[part.archive_index] ELSE <<>>
        skip == IF first /\ wav THEN seek_to_wav_data(f, part.entry_offset)
                ELSE [val |-> 0, pos |-> part.entry_offset]
        entry_len == part.entry_length - skip.val
        total_len == s.total_len + entry_len
        cut == expected_len # <<0, 0>> /\ wav
               /\ GreaterThanU32(total_len, expected_len)
        new_len == entry_len + U32Nat(expected_len) - total_len
    IN  IF reopen /\ ~present THEN Stopped(s, "None", "open", names)
        ELSE IF entry_len < 0 THEN Stopped(s, "panic", "entry_len", names)
        ELSE IF part.entry_length = part.entry_length_uncompressed
        THEN IF cut /\ new_len < 0 /\ checks
             THEN Stopped(s, "panic", "new_len", names)
             ELSE The({PartState("run", "",
                           s.buf \o (IF cut /\ new_len >= 0
                                     THEN SubSeq(read, 1, Min(new_len, Len(read)))
                                     ELSE read),
                           s.out, s.fed, part.archive_index, names, total_len) :
                         read \in {read_bytes(f, skip.pos, entry_len).bytes}})
        ELSE PartState("run", "",
                 s.buf \o decompress(read_bytes(f, skip.pos, entry_len).bytes,
                                     part.entry_length_uncompressed),
                 s.out, s.fed, part.archive_index, names, total_len)

RECURSIVE ReadFileParts(_, _, _, _, _, _, _)
ReadFileParts(parts, i, wav, expected_len, checks, disk, s) ==
    IF i > Len(parts) \/ s.tag # "run" THEN s
    ELSE IF parts[i].entry_length_uncompressed = 0
    THEN ReadFileParts(parts, i + 1, wav, expected_len, checks, disk, s)
    ELSE ReadFileParts(parts, i + 1, wav, expected_len, checks, disk,
             The({ReadFilePart(parts[i], i = 1, wav, expected_len, checks, disk, s)}))

\* VPKRespawn::read_file
VPKRespawn_read_file(v, disk, file_path, checks) ==
    IF file_path \notin DOMAIN v.tree.files
    THEN MissingEntry("None", "entry")
    ELSE LET entry == v.tree.files[file_path]
             wav == is_wav(file_path)
             first == entry.file_parts[1].archive_index
         IN  IF entry.preload_length > 0 /\ file_path \notin DOMAIN v.tree.preload
             THEN Outcome("None", "preload", <<>>, FALSE, File_create, {}, FALSE, <<>>)
             ELSE IF entry.file_parts = <<>>
             THEN Outcome("None", "parts", <<>>, FALSE, File_create, {}, FALSE, <<>>)
             ELSE IF first \notin DOMAIN disk
             THEN Outcome("None", "open", <<>>, FALSE, File_create,
                          {ArchiveName(first)}, FALSE, <<>>)
             ELSE The({
                 IF wav /\ checks /\ (c.wrapped \/ create_wav_header(c.cam).wrapped)
                 THEN Outcome("panic", "overflow", <<>>, FALSE, File_create,
                              {ArchiveName(first)}, FALSE, <<>>)
                 ELSE The({
                     IF s.tag # "run"
                     THEN Outcome(s.tag, s.why, <<>>, FALSE, File_create, s.names,
                                  FALSE, <<>>)
                     ELSE The({
                         IF crc32(buf) # entry.crc /\ ~wav
                         THEN Outcome("None", "crc", <<>>, FALSE, File_create,
                                      s.names, TRUE, buf)
                         ELSE Outcome("Some", "", buf, FALSE, File_create,
                                      s.names, TRUE, buf) :
                         buf \in {IF wav /\ c.cam.original_size # <<0, 0>>
                                  THEN truncate(s.buf, c.cam.original_size)
                                  ELSE s.buf}}) :
                     s \in {ReadFileParts(entry.file_parts, 1, wav,
                                IF wav THEN c.cam.original_size ELSE <<0, 0>>,
                                checks, disk,
                                PartState("run", "",
                                    (IF entry.preload_length > 0
                                     THEN v.tree.preload[file_path] ELSE <<>>)
                                    \o (IF wav THEN create_wav_header(c.cam).bytes
                                        ELSE <<>>),
                                    File_create, <<>>, first,
                                    {ArchiveName(first)}, 0))}}) :
                 c \in {IF wav THEN CamEntryFor(v, entry)
                        ELSE [panic |-> FALSE, wrapped |-> FALSE,
                              cam |-> [original_size |-> <<0, 0>>]]}})

\* One part with entry_length_uncompressed > 0 in extract_file.
ExtractFilePart(part, first, wav, expected_len, checks, disk, s) ==
    LET reopen == part.archive_index # s.index
        present == part.archive_index \in DOMAIN disk
        names == IF reopen THEN s.names \cup {ArchiveName(part.archive_index)}
                 ELSE s.names
        f == IF present THEN disk[part.archive_index] ELSE <<>>
        skip == IF first /\ wav THEN seek_to_wav_data(f, part.entry_offset)
                ELSE [val |-> 0, pos |-> part.entry_offset]
        entry_len == part.entry_length - skip.val
        total_len == s.total_len + entry_len
        cut == expected_len # <<0, 0>> /\ wav
               /\ GreaterThanU32(total_len, expected_len)
        new_len == entry_len + U32Nat(expected_len) - total_len
    IN  IF reopen /\ ~present THEN Stopped(s, "Io", "open", names)
        ELSE IF entry_len < 0 THEN Stopped(s, "panic", "entry_len", names)
        ELSE IF part.entry_length = part.entry_length_uncompressed
        THEN IF cut /\ new_len < 0 /\ checks
             THEN Stopped(s, "panic", "new_len", names)
             ELSE The({PartState("run", "", s.buf, write_all(s.out, bytes),
                                 s.fed \o bytes, part.archive_index, names,
                                 total_len) :
                         bytes \in {The({IF cut /\ new_len >= 0
                                         THEN SubSeq(read, 1, Min(new_len, Len(read)))
                                         ELSE read :
                                     read \in {read_bytes(f, skip.pos,
                                                          entry_len).bytes}})}})
        ELSE The({PartState("run", "", s.buf, write_all(s.out, bytes),
                            s.fed \o bytes, part.archive_index, names, total_len) :
                    bytes \in {decompress(read_bytes(f, skip.pos, entry_len).bytes,
                                          part.entry_length_uncompressed)}})

RECURSIVE ExtractFileParts(_, _, _, _, _, _, _)
ExtractFileParts(parts, i, wav, expected_len, checks, disk, s) ==
    IF i > Len(parts) \/ s.tag # "run" THEN s
    ELSE IF parts[i].entry_length_uncompressed = 0
    THEN ExtractFileParts(parts, i + 1, wav, expected_len, checks, disk, s)
    ELSE ExtractFileParts(parts, i + 1, wav, expected_len, checks, disk,
             The({ExtractFilePart(parts[i], i = 1, wav, expected_len, checks,
                                  disk, s)}))

\* The comparison that ends extract_file and extract_file_mem_map, and the
\* early return of a part loop.
RespawnVerdict(entry, wav, s) ==
    IF s.tag # "run"
    THEN Outcome(s.tag, s.why, <<>>, TRUE, s.out, s.names, FALSE, <<>>)
    ELSE IF crc32(s.fed) # entry.crc /\ ~wav
    THEN Outcome("BadData", "CRC must match", <<>>, TRUE, s.out, s.names, TRUE,
                 s.fed)
    ELSE Outcome("Ok", "", <<>>, TRUE, s.out, s.names, TRUE, s.fed)

\* VPKRespawn::extract_file
VPKRespawn_extract_file(v, disk, file_path, checks) ==
    IF file_path \notin DOMAIN v.tree.files
    THEN MissingEntry("FileNotFound", "")
    ELSE LET entry == v.tree.files[file_path]
             wav == is_wav(file_path)
             first == entry.file_parts[1].archive_index
         IN  IF entry.preload_length > 0 /\ file_path \notin DOMAIN v.tree.preload
             THEN Outcome("DataNotFound", "", <<>>, TRUE, File_create, {}, FALSE,
                          <<>>)
             ELSE The({
                 IF entry.file_parts = <<>>
                 THEN Outcome("BadData", "File had no parts", <<>>, TRUE,
                              write_all(File_create, preload), {}, FALSE, <<>>)
                 ELSE IF first \notin DOMAIN disk
                 THEN Outcome("Io", "open", <<>>, TRUE,
                              write_all(File_create, preload),
                              {ArchiveName(first)}, FALSE, <<>>)
                 ELSE The({
                     IF wav /\ checks
                        /\ (c.wrapped \/ create_wav_header(c.cam).wrapped)
                     THEN Outcome("panic", "overflow", <<>>, TRUE,
                                  write_all(File_create, preload),
                                  {ArchiveName(first)}, FALSE, <<>>)
                     ELSE The({
                         RespawnVerdict(entry, wav,
                             ExtractFileParts(entry.file_parts, 1, wav,
                                 IF wav THEN c.cam.original_size ELSE <<0, 0>>,
                                 checks, disk,
                                 PartState("run", "", <<>>,
                                           write_all(File_create, head), head,
                                           first, {ArchiveName(first)}, 0))) :
                         head \in {preload
                                   \o (IF wav THEN create_wav_header(c.cam).bytes
                                       ELSE <<>>)}}) :
                     c \in {IF wav THEN CamEntryFor(v, entry)
                            ELSE [panic |-> FALSE, wrapped |-> FALSE,
                                  cam |-> [original_size |-> <<0, 0>>]]}}) :
                 preload \in {IF entry.preload_length > 0
                              THEN v.tree.preload[file_path] ELSE <<>>}})

\* One part with entry_length_uncompressed > 0 in extract_file_mem_map.
\* A subtraction that wraps in a build without overflow checks leaves
\* bounds no slice has: the stored branch panics on the slice, the
\* compressed branch gets None from get.
MemMapPart(part, first, wav, expected_len, checks, mmaps, s) ==
    LET switch == part.archive_index # s.index
        present == part.archive_index \in DOMAIN mmaps
        f == IF present THEN mmaps[part.archive_index] ELSE <<>>
        seek == IF first /\ wav
                THEN seek_to_wav_data_mem_map(f, part.entry_offset)
                ELSE [panic |-> FALSE, val |-> 0]
        entry_offset == part.entry_offset + seek.val
        entry_len == part.entry_length - seek.val
        total_len == s.total_len + entry_len
        cut == expected_len # <<0, 0>> /\ wav
               /\ GreaterThanU32(total_len, expected_len)
        cut_len == IF cut THEN entry_len + U32Nat(expected_len) - total_len
                   ELSE entry_len
        stored == part.entry_length = part.entry_length_uncompressed
    IN  IF switch /\ ~present
        THEN Stopped(s, "MemoryMappedFileNotFound", "", s.names)
        ELSE IF seek.panic THEN Stopped(s, "panic", "index", s.names)
        ELSE IF entry_len < 0 /\ (checks \/ stored)
        THEN Stopped(s, "panic", "entry_len", s.names)
        ELSE IF entry_len < 0
        THEN Stopped(s, "FileNotFound", "Failed to read from archive file", s.names)
        ELSE IF stored
        THEN IF cut_len < 0 \/ entry_offset + cut_len > Len(f)
             THEN Stopped(s, "panic", "slice", s.names)
             ELSE The({PartState("run", "", s.buf, write_all(s.out, bytes),
                                 s.fed \o bytes, part.archive_index, s.names,
                                 total_len) :
                         bytes \in {SubSeq(f, entry_offset + 1,
                                           entry_offset + cut_len)}})
        ELSE IF part.entry_offset + entry_len > Len(f)
        THEN Stopped(s, "FileNotFound", "Failed to read from archive file", s.names)
        ELSE The({PartState("run", "", s.buf, write_all(s.out, bytes),
                            s.fed \o bytes, part.archive_index, s.names,
                            total_len) :
                    bytes \in {decompress(SubSeq(f, part.entry_offset + 1,
                                                 part.entry_offset + entry_len),
                                          part.entry_length_uncompressed)}})

RECURSIVE MemMapParts(_, _, _, _, _, _, _)
MemMapParts(parts, i, wav, expected_len, checks, mmaps, s) ==
    IF i > Len(parts) \/ s.tag # "run" THEN s
    ELSE IF parts[i].entry_length_uncompressed = 0
    THEN MemMapParts(parts, i + 1, wav, expected_len, checks, mmaps, s)
    ELSE MemMapParts(parts, i + 1, wav, expected_len, checks, mmaps,
             The({MemMapPart(parts[i], i = 1, wav, expected_len, checks, mmaps, s)}))

\* VPKRespawn::extract_file_mem_map
VPKRespawn_extract_file_mem_map(v, mmaps, file_path, checks) ==
    IF file_path \notin DOMAIN v.tree.files
    THEN MissingEntry("FileNotFound", "")
    ELSE LET entry == v.tree.files[file_path]
             parts == entry.file_parts
             wav == is_wav(file_path)
             first == parts[1].archive_index
             sum == SumU32([i \in 1..Len(parts) |->
                               parts[i].entry_length_uncompressed],
                           1, [val |-> <<0, 0>>, wrapped |-> FALSE])
         IN  IF entry.preload_length > 0 /\ file_path \notin DOMAIN v.tree.preload
             THEN Outcome("DataNotFound", "", <<>>, TRUE, File_create, {}, FALSE,
                          <<>>)
             ELSE The({
                 IF parts = <<>>
                 THEN Outcome("BadData", "File had no parts", <<>>, TRUE,
                              write_all(File_create, preload), {}, FALSE, <<>>)
                 ELSE IF first \notin DOMAIN mmaps
                 THEN Outcome("MemoryMappedFileNotFound", "", <<>>, TRUE,
                              write_all(File_create, preload), {}, FALSE, <<>>)
                 ELSE The({
                     IF checks /\ (sum.wrapped
                                   \/ (wav /\ (c.wrapped
                                               \/ create_wav_header(c.cam).wrapped)))
                     THEN Outcome("panic", "overflow", <<>>, TRUE,
                                  write_all(File_create, preload), {}, FALSE, <<>>)
                     ELSE The({
                         RespawnVerdict(entry, wav,
                             MemMapParts(parts, 1, wav, c.cam.original_size,
                                 checks, mmaps,
                                 PartState("run", "", <<>>,
                                     set_len(write_all(File_create, head),
                                             U32Nat(c.cam.original_size)),
                                     head, first, {}, 0))) :
                         head \in {preload
                                   \o (IF wav THEN create_wav_header(c.cam).bytes
                                       ELSE <<>>)}}) :
                     c \in {IF wav THEN CamEntryFor(v, entry)
                            ELSE [panic |-> FALSE, wrapped |-> FALSE,
                                  cam |-> [original_size |-> sum.val]]}}) :
                 preload \in {IF entry.preload_length > 0
                              THEN v.tree.preload[file_path] ELSE <<>>}})

---------------------------------------------------------------------------
(* The CAM sidecar: records, the offset map, lookups                       *)

NoCamEntry ==
    [magic |-> <<0, 0>>, original_size |-> <<0, 0>>, compressed_size |-> <<0, 0>>,
     sample_rate |-> <<0, 0>>, channels |-> 0, sample_count |-> <<0, 0>>,
     header_size |-> <<0, 0>>, vpk_content_offset |-> 0]

\* RESPAWN_CAM_ENTRY_MAGIC, 3_302_889_984 = 0xC4DE1C00, as 16-bit halves
RESPAWN_CAM_ENTRY_MAGIC == <<50398, 7168>>

\* A sample rate read as four bytes
read_u24_four_bytes(f, p) == read_uN(f, p, 4)

\* VPKFileReader::read_u24: three bytes, the fourth taken as 0
read_u24(f, p) == read_uN(f, p, 3)

\* The fields of one record in the order from_file reads them.  A field
\* that cannot be read ends from_file with Error::Util; pos is then the
\* cursor the failed read left.
CamRecord(f, p) ==
    LET magic == read_u32(f, p)
        original_size == read_u32(f, magic.pos)
        compressed_size == read_u32(f, original_size.pos)
        sample_rate == read_u24(f, compressed_size.pos)
        channels == read_u8(f, sample_rate.pos)
        sample_count == read_u32(f, channels.pos)
        header_size == read_u32(f, sample_count.pos)
        vpk_content_offset == read_u64(f, header_size.pos)
    IN  [ok |-> vpk_content_offset.ok,
         pos |-> vpk_content_offset.pos,
         entry |-> [magic |-> ToHalves(magic.val),
                    original_size |-> ToHalves(original_size.val),
                    compressed_size |-> ToHalves(compressed_size.val),
                    sample_rate |-> ToHalves(sample_rate.val),
                    channels |-> channels.val,
                    sample_count |-> ToHalves(sample_count.val),
                    header_size |-> ToHalves(header_size.val),
                    vpk_content_offset |-> vpk_content_offset.val]]

\* An insertion that leaves the entry of a key already present
CamInsert_keep_first(entries, entry) ==
    IF entry.vpk_content_offset \in DOMAIN entries THEN entries
    ELSE [x \in DOMAIN entries \cup {entry.vpk_content_offset} |->
             IF x = entry.vpk_content_offset THEN entry ELSE entries[x]]

\* entries.insert(entry.vpk_content_offset, entry)
CamInsert(entries, entry) == Insert(entries, entry.vpk_content_offset, entry)

\* The loop of VPKRespawnCam::from_file from cursor p: while the cursor is
\* before the end of the file read a record, and insert it if its magic is
\* RESPAWN_CAM_ENTRY_MAGIC.  records counts the records read.
RECURSIVE CamLoop(_, _, _, _)
CamLoop(f, p, entries, records) ==
    IF ~(p < Len(f))
    THEN [tag |-> "Ok", entries |-> entries, pos |-> p, records |-> records]
    ELSE The({IF ~r.ok
              THEN [tag |-> "Util", entries |-> EmptyMap, pos |-> r.pos,
                    records |-> records]
              ELSE The({CamLoop(f, r.pos, next, records + 1) :
                          next \in {IF r.entry.magic = RESPAWN_CAM_ENTRY_MAGIC
                                    THEN CamInsert(entries, r.entry)
                                    ELSE entries}}) :
              r \in {CamRecord(f, p)}})

\* VPKRespawnCam::from_file: the length by a seek to the end, back to the
\* start, then the loop.
VPKRespawnCam_from_file(f) == CamLoop(f, 0, EmptyMap, 0)

\* VPKRespawnCam::find_entry
find_entry(entries, vpk_content_offset) ==
    IF vpk_content_offset \in DOMAIN entries
    THEN [some |-> TRUE, entry |-> entries[vpk_content_offset]]
    ELSE [some |-> FALSE, entry |-> NoCamEntry]

---------------------------------------------------------------------------
(* Input streams                                                           *)

\* Longest run of bytes put before a header, so that probes also start at
\* a cursor that is not 0
MaxPad == 1

Zeros(n) == [i \in 1..n |-> 0]

Prefixes(bs) == {SubSeq(bs, 1, n) : n \in 0..Len(bs)}

SignatureInputs == {VPK_SIGNATURE_V1, VPK_SIGNATURE_V1 + 1}

VersionInputs == {VPK_VERSION_V1, VPK_VERSION_V2, VPK_VERSION_REVPK, 3}

\* Streams for the probes: padding, signature, version and one more byte,
\* cut at every length.
ProbeFiles ==
    UNION {Prefixes(Zeros(k) \o to_le_bytes(s, 4) \o to_le_bytes(v, 4) \o <<7>>) :
             <<k, s, v>> \in (0..MaxPad) \X SignatureInputs \X VersionInputs}

\* Streams for the header readers: seven 32-bit fields, cut at every length.
HeaderFiles ==
    UNION {Prefixes(to_le_bytes(s, 4) \o to_le_bytes(v, 4) \o to_le_bytes(0, 4)
                    \o to_le_bytes(f4, 4) \o to_le_bytes(f5, 4)
                    \o to_le_bytes(f6, 4) \o to_le_bytes(f7, 4)) :
             <<s, v, f4, f5, f6, f7>> \in
                 SignatureInputs \X VersionInputs \X {0, 1}
                 \X {0, SizeOfArchiveMD5Entry, SizeOfArchiveMD5Entry - 1}
                 \X {SizeOfOtherMD5Section, SizeOfOtherMD5Section - 1}
                 \X {0, SizeOfSignatureSection, 1}}

\* In-memory headers handed to the header writers.
HeaderValues ==
    [signature : SignatureInputs, version : VersionInputs,
     tree_size : {0, 258}, unknown : {0, 1}]

NoProbes == [v1 |-> "none", v2 |-> "none", revpk |-> "none"]

NoRet == [op |-> "none", tag |-> "none", before |-> 0]

NoCam == [tag |-> "none", entries |-> <<>>, pos |-> 0]

\* No sidecar and no CAM entry are at hand
\* RwLock::new: nobody holds the lock
Unlocked == [readers |-> {}, writer |-> 0]

\* The cache is empty and no thread calls it
CacheIdle ==
    /\ CAM_MAP = <<>>
    /\ lock = Unlocked
    /\ calls = <<>>
    /\ parses = <<>>

CamIdle ==
    /\ wav_entry = NoCamEntry
    /\ cam_file = <<>>
    /\ cam = NoCam
    /\ CacheIdle

Answer(b) == IF b THEN "true" ELSE "false"

---------------------------------------------------------------------------
(* Probing and detection on an open stream                                 *)

InitDetect ==
    /\ file \in ProbeFiles
    /\ pos \in 0..Len(file)
    /\ out = <<>>
    /\ hdr = NoHeader
    /\ probes = NoProbes
    /\ ret = NoRet
    /\ vpk = NoVPK
    /\ back = NoVPK
    /\ archives = EmptyMap
    /\ opened = {}
    /\ data = None
    /\ CamIdle

ProbeV1 ==
    LET r == VPKHeaderV1_is_format(file, pos)
    IN  /\ pos' = r.pos
        /\ probes' = [probes EXCEPT !.v1 = Answer(r.ans)]
        /\ ret' = [op |-> "is_format_v1", tag |-> Answer(r.ans), before |-> pos]
        /\ UNCHANGED <<file, out, hdr>>
        /\ UNCHANGED <<workerVars, camVars>>

ProbeV2 ==
    LET r == VPKHeaderV2_is_format(file, pos)
    IN  /\ pos' = r.pos
        /\ probes' = [probes EXCEPT !.v2 = Answer(r.ans)]
        /\ ret' = [op |-> "is_format_v2", tag |-> Answer(r.ans), before |-> pos]
        /\ UNCHANGED <<file, out, hdr>>
        /\ UNCHANGED <<workerVars, camVars>>

ProbeRespawn ==
    LET r == VPKHeaderRespawn_is_format(file, pos)
    IN  /\ pos' = r.pos
        /\ probes' = [probes EXCEPT !.revpk = Answer(r.ans)]
        /\ ret' = [op |-> "is_format_revpk", tag |-> Answer(r.ans), before |-> pos]
        /\ UNCHANGED <<file, out, hdr>>
        /\ UNCHANGED <<workerVars, camVars>>

Detect ==
    LET r == detect_pak_format(file, pos)
    IN  /\ pos' = r.pos
        /\ ret' = [op |-> "detect_pak_format", tag |-> r.fmt, before |-> pos]
        /\ UNCHANGED <<file, out, hdr, probes>>
        /\ UNCHANGED <<workerVars, camVars>>

NextDetect == ProbeV1 \/ ProbeV2 \/ ProbeRespawn \/ Detect

SpecDetect == InitDetect /\ [][NextDetect]_vars

---------------------------------------------------------------------------
(* Header reads from the start of a stream, header writes to a new stream  *)

InitHeader ==
    /\ file \in HeaderFiles
    /\ pos = 0
    /\ out = <<>>
    /\ hdr = NoHeader
    /\ probes = NoProbes
    /\ ret = NoRet
    /\ vpk = NoVPK
    /\ back = NoVPK
    /\ archives = EmptyMap
    /\ opened = {}
    /\ data = None
    /\ CamIdle

ReadHeader(op, r) ==
    /\ ret.op = "none"
    /\ pos' = r.pos
    /\ hdr' = r.hdr
    /\ ret' = [op |-> op, tag |-> r.tag, before |-> pos]
    /\ UNCHANGED <<file, out, probes>>
    /\ UNCHANGED <<workerVars, camVars>>

ReadHeaderV1 == ReadHeader("VPKHeaderV1::from", VPKHeaderV1_from(file, pos))

ReadHeaderV2 == ReadHeader("VPKHeaderV2::from", VPKHeaderV2_from(file, pos))

ReadHeaderRespawn ==
    ReadHeader("VPKHeaderRespawn::from", VPKHeaderRespawn_from(file, pos))

WriteHeader(op, h, r) ==
    /\ ret.op = "none"
    /\ hdr' = h
    /\ out' = r.out
    /\ ret' = [op |-> op, tag |-> r.tag, before |-> Len(out)]
    /\ UNCHANGED <<file, pos, probes>>
    /\ UNCHANGED <<workerVars, camVars>>

WriteHeaderV1 ==
    \E h \in HeaderValues :
        WriteHeader("VPKHeaderV1::write",
                    [signature |-> h.signature, version |-> h.version,
                     tree_size |-> h.tree_size],
                    VPKHeaderV1_write(h, out))

WriteHeaderRespawn ==
    \E h \in HeaderValues :
        WriteHeader("VPKHeaderRespawn::write", h, VPKHeaderRespawn_write(h, out))

NextHeader ==
    \/ ReadHeaderV1
    \/ ReadHeaderV2
    \/ ReadHeaderRespawn
    \/ WriteHeaderV1
    \/ WriteHeaderRespawn

SpecHeader == InitHeader /\ [][NextHeader]_vars

---------------------------------------------------------------------------
(* Claims about probing and detection (SpecDetect)                         *)

ProbeOps == {"is_format_v1", "is_format_v2", "is_format_revpk", "detect_pak_format"}

\* C4: after each of the three header probes and after detect_pak_format
\* the stream position equals the position before the call, whatever the
\* file holds (also fewer than 8 bytes) and wherever the cursor started,
\* whether the answer is true or false.
C4_ProbeRestoresCursor == ret.op \in ProbeOps => pos = ret.before

\* A probe that answered false with fewer than 8 bytes left, from a cursor
\* that was not 0.
C4_Witness ==
    /\ ret.op = "is_format_revpk"
    /\ ret.tag = "false"
    /\ ret.before > 0
    /\ Len(file) - ret.before < 8
    /\ Len(file) - ret.before > 4

\* The little-endian bytes of the magic and of the three versions, written
\* out by hand.
MagicBytes == <<52, 18, 170, 85>>

HeaderBytesAt(f, p, version) ==
    /\ p + 8 <= Len(f)
    /\ SubSeq(f, p + 1, p + 4) = MagicBytes
    /\ SubSeq(f, p + 5, p + 8) = version

ExpectedFormat(f, p) ==
    IF HeaderBytesAt(f, p, <<1, 0, 0, 0>>) THEN "VPKVersion1"
    ELSE IF HeaderBytesAt(f, p, <<2, 0, 0, 0>>) THEN "VPKVersion2"
    ELSE IF HeaderBytesAt(f, p, <<2, 0, 3, 0>>) THEN "VPKRespawn"
    ELSE "Unknown"

---------------------------------------------------------------------------
(* Claims about the header codecs (SpecHeader)                             *)

HasField(i) == Len(file) >= 4 * i

\* The i-th 32-bit field of the stream, decoded by hand.
Word(i) ==
    file[4 * i - 3] + 256 * file[4 * i - 2] + 65536 * file[4 * i - 1]
        + 16777216 * file[4 * i]

HeaderReadOps == {"VPKHeaderV1::from", "VPKHeaderV2::from", "VPKHeaderRespawn::from"}

OwnVersion ==
    CASE ret.op = "VPKHeaderV1::from" -> 1
      [] ret.op = "VPKHeaderV2::from" -> 2
      [] OTHER -> 196610

MagicAndVersionRight ==
    HasField(2) /\ Word(1) = 1437209140 /\ Word(2) = OwnVersion

\* The section-size rule a complete field of the stream breaks.
BrokenSizeRule ==
    CASE ret.op = "VPKHeaderV2::from" ->
            \/ HasField(5) /\ Word(5) % 28 # 0
            \/ HasField(6) /\ Word(6) # 48
            \/ HasField(7) /\ Word(7) \notin {0, 296}
      [] ret.op = "VPKHeaderRespawn::from" -> HasField(4) /\ Word(4) # 0
      [] OTHER -> FALSE

OkHeaderInvariants ==
    /\ hdr.signature = 1437209140
    /\ hdr.version = OwnVersion
    /\ hdr.tree_size = Word(3)
    /\ ret.op = "VPKHeaderV2::from" =>
          /\ hdr.archive_md5_section_size % 28 = 0
          /\ hdr.other_md5_section_size = 48
          /\ hdr.signature_section_size \in {0, 296}
    /\ ret.op = "VPKHeaderRespawn::from" => hdr.unknown = 0

\* C6: a header read checks magic, then version, then section sizes: a
\* wrong magic gives InvalidSignature whatever follows; with the right
\* magic a version that is not the variant's own gives BadVersion whatever
\* follows; BadData is given only with magic and version right, for a V2
\* archive-MD5 size that is no multiple of 28, an other-MD5 size that is not
\* 48, a signature size outside {0, 296}, or a Respawn unknown field that is
\* not 0, and a complete header that breaks such a rule is never accepted;
\* every header returned Ok satisfies its variant's invariants.
C6_HeaderReadOrder ==
    ret.op \in HeaderReadOps =>
        /\ (HasField(1) /\ Word(1) # 1437209140) => ret.tag = "InvalidSignature"
        /\ (HasField(2) /\ Word(1) = 1437209140 /\ Word(2) # OwnVersion)
              => ret.tag = "BadVersion"
        /\ ret.tag = "BadData" => MagicAndVersionRight /\ BrokenSizeRule
        /\ (MagicAndVersionRight /\ BrokenSizeRule)
              => ret.tag \in {"BadData", "Util"}
        /\ (MagicAndVersionRight /\ BrokenSizeRule /\ HasField(7))
              => ret.tag = "BadData"
        /\ ret.tag = "Ok" => OkHeaderInvariants

\* A Respawn header with a wrong magic and a wrong version: the magic is
\* reported.
C6_Witness ==
    /\ ret.op = "VPKHeaderRespawn::from"
    /\ HasField(4)
    /\ Word(1) # 1437209140
    /\ Word(2) # 196610
    /\ Word(4) # 0
    /\ ret.tag = "InvalidSignature"

HeaderWriteOps == {"VPKHeaderV1::write", "VPKHeaderRespawn::write"}

\* C7: a header write re-validates what the header read enforces before it
\* emits a byte: VPKHeaderV1::write fails on a wrong signature or version,
\* VPKHeaderRespawn::write fails on a wrong signature, a wrong version or
\* unknown # 0, and a failing write has written nothing.
C7_HeaderWriteRevalidates ==
    ret.op \in HeaderWriteOps =>
        /\ (hdr.signature # 1437209140) => ret.tag # "Ok"
        /\ (ret.op = "VPKHeaderV1::write" /\ hdr.version # 1) => ret.tag # "Ok"
        /\ (ret.op = "VPKHeaderRespawn::write" /\ hdr.version # 196610)
              => ret.tag # "Ok"
        /\ (ret.op = "VPKHeaderRespawn::write" /\ hdr.unknown # 0)
              => ret.tag # "Ok"
        /\ ret.tag # "Ok" => out = <<>>

---------------------------------------------------------------------------
(* Directory files: load, build, write, read back                          *)

\* Most files of a tree, read or built
MaxFiles == 2

\* Most bytes cut off the end of a directory file
MaxCut == 3

\* The files of the input trees: extension, directory, name, stored crc,
\* preload bytes, number of Respawn file parts and V1 terminator.  The
\* first two share a path, the third shares their directory, the fourth has
\* another extension, the last has a terminator that is not 0xFFFF.
TreeItems ==
    {[ext |-> <<116>>, dir |-> <<100>>, name |-> <<97>>, crc |-> 1,
      preload |-> <<>>, parts |-> 0, terminator |-> 65535],
     [ext |-> <<116>>, dir |-> <<100>>, name |-> <<97>>, crc |-> 2,
      preload |-> <<9, 8>>, parts |-> 1, terminator |-> 65535],
     [ext |-> <<116>>, dir |-> <<100>>, name |-> <<98>>, crc |-> 3,
      preload |-> <<>>, parts |-> 1, terminator |-> 65535],
     [ext |-> <<117>>, dir |-> <<101>>, name |-> <<97>>, crc |-> 4,
      preload |-> <<7>>, parts |-> 0, terminator |-> 65535],
     [ext |-> <<116>>, dir |-> <<100>>, name |-> <<99>>, crc |-> 5,
      preload |-> <<>>, parts |-> 1, terminator |-> 0]}

\* The one file part an input entry has, field by field.
ItemPart ==
    [archive_index |-> 0, load_flags |-> 257, texture_flags |-> 8,
     entry_offset |-> 3, entry_length |-> 5, entry_length_uncompressed |-> 5]

\* The in-memory entry of an input file.
ItemEntry(kind, item) ==
    IF kind = "v1"
    THEN [crc |-> item.crc, preload_length |-> Len(item.preload),
          archive_index |-> 0, entry_offset |-> 3, entry_length |-> 5,
          terminator |-> item.terminator]
    ELSE [crc |-> item.crc, preload_length |-> Len(item.preload),
          file_parts |-> IF item.parts = 1 THEN <<ItemPart>> ELSE <<>>]

\* The bytes of the entry of an input file, laid out by hand.
ItemEntryBytes(kind, item) ==
    IF kind = "v1"
    THEN <<item.crc, 0, 0, 0>> \o <<Len(item.preload), 0>> \o <<0, 0>>
         \o <<3, 0, 0, 0>> \o <<5, 0, 0, 0>>
         \o <<item.terminator % 256, item.terminator \div 256>>
    ELSE <<item.crc, 0, 0, 0>> \o <<Len(item.preload), 0>>
         \o (IF item.parts = 1
             THEN <<0, 0>> \o <<1, 1>> \o <<8, 0, 0, 0>>
                  \o <<3, 0, 0, 0, 0, 0, 0, 0>> \o <<5, 0, 0, 0, 0, 0, 0, 0>>
                  \o <<5, 0, 0, 0, 0, 0, 0, 0>>
             ELSE <<>>)
         \o <<255, 255>>

\* The tree bytes of a list of input files: a file opens a new extension or
\* a new directory when it differs from the file before it, and every level
\* is closed by a zero byte.
RECURSIVE ItemTreeBytes(_, _, _)
ItemTreeBytes(kind, items, i) ==
    IF i > Len(items) THEN <<0, 0>>
    ELSE LET item == items[i]
             opener ==
                 IF i = 1 THEN item.ext \o <<0>> \o item.dir \o <<0>>
                 ELSE IF items[i - 1].ext # item.ext
                 THEN <<0, 0>> \o item.ext \o <<0>> \o item.dir \o <<0>>
                 ELSE IF items[i - 1].dir # item.dir
                 THEN <<0>> \o item.dir \o <<0>>
                 ELSE <<>>
         IN  opener \o item.name \o <<0>> \o ItemEntryBytes(kind, item)
                 \o item.preload \o ItemTreeBytes(kind, items, i + 1)

\* A directory file: the header with the length of the tree, the tree, with
\* or without the zero byte that closes the extension level, and cut bytes
\* missing at the end.
TreeFile(kind, items, final, cut) ==
    LET tree == (IF items = <<>> THEN <<>> ELSE ItemTreeBytes(kind, items, 1))
                \o (IF final THEN <<0>> ELSE <<>>)
        full == MagicBytes
                \o (IF kind = "v1" THEN <<1, 0, 0, 0>> ELSE <<2, 0, 3, 0>>)
                \o <<Len(tree), 0, 0, 0>>
                \o (IF kind = "v1" THEN <<>> ELSE <<0, 0, 0, 0>>)
                \o tree
    IN  SubSeq(full, 1, Len(full) - cut)

ItemLists == UNION {[1..n -> TreeItems] : n \in 0..MaxFiles}

\* A whole directory file whose header gives a tree_size that is delta away
\* from the length of the tree it holds, followed by one byte of file data.
ResizedTreeFile(kind, items, delta) ==
    LET tree == ItemTreeBytes(kind, items, 1) \o <<0>>
    IN  MagicBytes
            \o (IF kind = "v1" THEN <<1, 0, 0, 0>> ELSE <<2, 0, 3, 0>>)
            \o <<Len(tree) + delta, 0, 0, 0>>
            \o (IF kind = "v1" THEN <<>> ELSE <<0, 0, 0, 0>>)
            \o tree \o <<5>>

TreeFiles ==
    {TreeFile(kind, items, final, cut) :
        <<kind, items, final, cut>> \in
            {"v1", "respawn"} \X ItemLists \X BOOLEAN \X (0..MaxCut)}
    \cup {ResizedTreeFile(kind, items, delta) :
        <<kind, items, delta>> \in
            {"v1", "respawn"} \X (ItemLists \ {<<>>}) \X {-2, 1}}

\* The contents of a file that is at output_path before write_dir is called
ExistingFile == <<9, 9, 9>>

\* Either a directory file is there to be loaded, or a value was made by
\* PakWorker::new(); the output path holds nothing or an earlier file.
InitTree ==
    /\ \/ file \in TreeFiles /\ vpk = NoVPK
       \/ file = <<>> /\ vpk \in {VPKVersion1_new, VPKRespawn_new}
    /\ pos = 0
    /\ out \in {<<>>, ExistingFile}
    /\ hdr = NoHeader
    /\ probes = NoProbes
    /\ ret = NoRet
    /\ back = NoVPK
    /\ archives = EmptyMap
    /\ opened = {}
    /\ data = None
    /\ CamIdle

FromFile(kind, op) ==
    /\ vpk.origin = "none"
    /\ ret.op = "none"
    /\ \E r \in {PakWorker_from_file(kind, file, pos)} :
        /\ vpk' = r.vpk
        /\ pos' = r.pos
        /\ ret' = [op |-> op, tag |-> r.tag, before |-> pos]
        /\ UNCHANGED <<file, out, hdr, probes, back, archives, opened, data, camVars>>

FromFileV1 == FromFile("v1", "VPKVersion1::from_file")

FromFileRespawn == FromFile("respawn", "VPKRespawn::from_file")

\* A caller fills tree.files, and tree.preload for an entry with preload
\* bytes, of a value made by new().
InsertFile ==
    \E item \in TreeItems :
        LET file_path == FilePath(item.dir, item.name, item.ext)
        IN  /\ vpk.origin = "new"
            /\ ret.op \in {"none", "insert"}
            /\ Cardinality(DOMAIN vpk.tree.files) < MaxFiles
            /\ file_path \notin DOMAIN vpk.tree.files
            /\ vpk' = [vpk EXCEPT
                         !.tree.files = Insert(@, file_path, ItemEntry(vpk.kind, item)),
                         !.tree.preload = IF item.preload = <<>> THEN @
                                          ELSE Insert(@, file_path, item.preload)]
            /\ ret' = [op |-> "insert", tag |-> "Ok", before |-> 0]
            /\ UNCHANGED <<file, pos, out, hdr, probes, back, archives, opened, data, camVars>>

WriteDir ==
    /\ vpk.origin # "none"
    /\ ret.op \notin {"write_dir", "from_file(out)"}
    /\ \E it \in IterationOrders(vpk.tree) :
        \E r \in {PakWriter_write_dir(vpk, it)} :
            /\ out' = r.out
            /\ ret' = [op |-> "write_dir", tag |-> r.tag, before |-> 0,
                       existing |-> out]
            /\ UNCHANGED <<file, pos, hdr, probes, vpk, back, archives, opened, data, camVars>>

\* from_file on the file write_dir wrote.
ReadBack ==
    /\ ret.op = "write_dir"
    /\ \E r \in {PakWorker_from_file(vpk.kind, out, 0)} :
        /\ back' = r.vpk
        /\ ret' = [op |-> "from_file(out)", tag |-> r.tag, before |-> 0]
        /\ UNCHANGED <<file, pos, out, hdr, probes, vpk, archives, opened, data, camVars>>

NextTree == FromFileV1 \/ FromFileRespawn \/ InsertFile \/ WriteDir \/ ReadBack

SpecTree == InitTree /\ [][NextTree]_vars

---------------------------------------------------------------------------
(* Claims about load, write and read back (SpecTree)                       *)

HeaderSize(kind) == IF kind = "v1" THEN 12 ELSE 16

\* C1: for every V1 or Respawn directory file that from_file accepts,
\* write_dir succeeds and from_file of the written file returns Ok with an
\* equal header and with tree.files and tree.preload equal as maps.
C1_StructuralRoundTrip ==
    /\ (ret.op = "write_dir" /\ vpk.origin = "file") => ret.tag = "Ok"
    /\ (ret.op = "from_file(out)" /\ vpk.origin = "file") =>
          /\ ret.tag = "Ok"
          /\ back.header = vpk.header
          /\ back.tree.files = vpk.tree.files
          /\ back.tree.preload = vpk.tree.preload

\* A complete directory file (nothing cut off, every path listed once)
\* that came back equal: the round trip the tests of the repository make.
C1_RoundTripOfCompleteFile ==
    /\ ret.op = "from_file(out)"
    /\ vpk.origin = "file"
    /\ Cardinality(DOMAIN vpk.tree.files) = MaxFiles
    /\ vpk.tree.preload # EmptyMap
    /\ back.header = vpk.header
    /\ back.tree = vpk.tree

TerminatorsValid(v) ==
    v.kind = "v1" =>
        \A x \in DOMAIN v.tree.files : v.tree.files[x].terminator = 65535

\* C2: a V1 or Respawn value made by PakWorker::new(), filled with entries
\* (and their preload bytes) and written with the header as constructed, is
\* read back by from_file with a tree equal to the one written.
C2_BuiltRoundTrip ==
    (ret.op = "from_file(out)" /\ vpk.origin = "new" /\ TerminatorsValid(vpk)) =>
        /\ ret.tag = "Ok"
        /\ back.tree = vpk.tree

\* C3: for every V1 or Respawn directory file that from_file accepts, the
\* bytes write_dir emits are the first header_size + tree_size bytes of the
\* file, whatever the number of extensions, directories and files.
C3_ByteFaithful ==
    (ret.op = "write_dir" /\ vpk.origin = "file") =>
        /\ Len(out) = HeaderSize(vpk.kind) + vpk.header.tree_size
        /\ Len(out) <= Len(file)
        /\ \A i \in 1..Len(out) : out[i] = file[i]

\* The bytes 13..18 of a V1 directory file hold three one-letter strings and
\* the tree is long enough for them: the first entry record is at 19..36.
FirstEntryAt19 ==
    /\ Len(file) >= 36
    /\ SubSeq(file, 1, 8) = MagicBytes \o <<1, 0, 0, 0>>
    /\ SubSeq(file, 10, 12) = <<0, 0, 0>>
    /\ file[9] >= 6
    /\ \A i \in {13, 15, 17} : file[i] \in 1..127
    /\ \A i \in {14, 16, 18} : file[i] = 0

EndsWith(o, suffix) ==
    /\ Len(o) >= Len(suffix)
    /\ SubSeq(o, Len(o) - Len(suffix) + 1, Len(o)) = suffix

\* C8: the V1/V2 entry terminator is checked in both directions.  Decode:
\* a tree whose entry record carries a terminator other than 0xFFFF is
\* refused with InvalidEntryTerminator, so every entry of a parsed tree has
\* terminator 0xFFFF.  Encode: a tree holding an entry whose terminator is
\* not 0xFFFF makes the write fail with InvalidEntryTerminator, and the
\* output ends with the name of such an entry: no byte of it was written.
C8_TerminatorCheckedBothWays ==
    /\ (ret.op = "VPKVersion1::from_file" /\ FirstEntryAt19
            /\ <<file[35], file[36]>> # <<255, 255>>)
          => ret.tag = "InvalidEntryTerminator"
    /\ (vpk.kind = "v1" /\ vpk.origin = "file") => TerminatorsValid(vpk)
    /\ (back.kind = "v1") => TerminatorsValid(back)
    /\ (ret.op = "write_dir" /\ ~TerminatorsValid(vpk)) =>
          /\ ret.tag = "InvalidEntryTerminator"
          /\ Len(out) >= SizeOfVPKHeaderV1
          /\ \E x \in DOMAIN vpk.tree.files :
                /\ vpk.tree.files[x].terminator # 65535
                /\ EndsWith(out, Path_file_stem(x) \o <<0>>)
    /\ (ret.op = "write_dir" /\ vpk.kind = "v1" /\ TerminatorsValid(vpk))
          => ret.tag = "Ok"

\* A directory file whose second entry has terminator 0 was refused.
C8_Witness ==
    /\ ret.op = "VPKVersion1::from_file"
    /\ ret.tag = "InvalidEntryTerminator"
    /\ FirstEntryAt19
    /\ <<file[35], file[36]>> = <<255, 255>>

\* A built tree whose write failed at its second entry, after the first
\* one was written.
C8_WitnessEncode ==
    /\ ret.op = "write_dir"
    /\ ret.tag = "InvalidEntryTerminator"
    /\ Len(out) > SizeOfVPKHeaderV1 + 6 + 18

---------------------------------------------------------------------------
(* Reading: a loaded directory file, archives on disk, and the three       *)
(* reading operations of each worker                                       *)

\* The archives on disk.  Archive 0 holds 44 bytes, two 0xCB bytes and four
\* data bytes; no archive has index 2.
Archive0 == [i \in 1..44 |-> i] \o <<203, 203, 31, 32, 33, 34>>

Disk ==
    [i \in {0, 1, 32767, 65407} |->
        CASE i = 0 -> Archive0
          [] i = 1 -> <<41, 42, 43>>
          [] i = 32767 -> <<61, 62, 63, 64>>
          [] OTHER -> <<71, 72, 73, 74, 75>>]

Disks == {EmptyMap, Disk}

\* The bytes that follow the tree in the directory file
EofData == {<<>>, <<21, 22, 23, 24, 25>>}

\* The entry of the one file "d/a.{ext}" of a V1 directory file
ReadEntriesV1 ==
    [ext : {<<116>>, <<119, 97, 118>>}, preload : {<<>>, <<9, 8>>},
     archive_index : {0, 2, 32767, 65407}, entry_offset : {0, 2},
     entry_length : {0, 3}]

\* The crc values an entry is stored with: the CRC of the preload run
\* followed by the bytes one of the sources holds at the entry's place, and
\* a value that is none of them.
StoredCrcsV1(e, eof) ==
    {crc32(e.preload \o read_bytes(src, e.entry_offset, e.entry_length).bytes) :
        src \in {eof, Disk[0], Disk[32767], Disk[65407]}} \cup {5}

\* The directory file, laid out by hand: the header with the length of the
\* tree, the tree with the one file, the bytes that follow it.
ReadFileV1Bytes(e, crc, eof) ==
    LET tree == e.ext \o <<0, 100, 0, 97, 0>>
                \o to_le_bytes(crc, 4) \o <<Len(e.preload), 0>>
                \o <<e.archive_index % 256, e.archive_index \div 256>>
                \o <<e.entry_offset, 0, 0, 0>> \o <<e.entry_length, 0, 0, 0>>
                \o <<255, 255>> \o e.preload \o <<0, 0, 0>>
    IN  MagicBytes \o <<1, 0, 0, 0>> \o <<Len(tree), 0, 0, 0>> \o tree \o eof

DirFilesV1 ==
    UNION {{ReadFileV1Bytes(e, crc, eof) : crc \in StoredCrcsV1(e, eof)} :
              <<e, eof>> \in ReadEntriesV1 \X EofData}

\* The part lists of the one file of a Respawn directory file: parts as
\* <<archive_index, entry_offset, entry_length, entry_length_uncompressed>>
PartLists ==
    {<<>>,
     << <<0, 0, 3, 3>> >>,
     << <<0, 0, 48, 48>> >>,
     << <<0, 0, 50, 50>> >>,
     << <<1, 1, 2, 4>> >>,
     << <<0, 0, 48, 48>>, <<1, 1, 2, 4>> >>,
     << <<0, 0, 50, 50>>, <<0, 0, 3, 3>> >>,
     << <<0, 46, 2, 0>>, <<0, 0, 3, 3>> >>,
     << <<2, 0, 3, 3>> >>,
     << <<0, 0, 3, 3>>, <<2, 0, 3, 3>> >>,
     << <<0, 0, 3, 3>>, <<1, 1, 3, 3>> >>}

ReadEntriesRespawn ==
    [ext : {<<116>>, <<119, 97, 118>>, <<87, 97, 86>>}, preload : {<<>>, <<9, 8>>},
     parts : PartLists]

RECURSIVE PartBytes(_, _)
PartBytes(parts, i) ==
    IF i > Len(parts) THEN <<>>
    ELSE <<parts[i][1], 0>> \o <<0, 0>> \o <<0, 0, 0, 0>>
         \o <<parts[i][2], 0, 0, 0, 0, 0, 0, 0>>
         \o <<parts[i][3], 0, 0, 0, 0, 0, 0, 0>>
         \o <<parts[i][4], 0, 0, 0, 0, 0, 0, 0>>
         \o PartBytes(parts, i + 1)

ReadFileRespawnBytes(e, crc) ==
    LET tree == e.ext \o <<0, 100, 0, 97, 0>>
                \o to_le_bytes(crc, 4) \o <<Len(e.preload), 0>>
                \o PartBytes(e.parts, 1) \o <<255, 255>>
                \o e.preload \o <<0, 0, 0>>
    IN  MagicBytes \o <<2, 0, 3, 0>> \o <<Len(tree), 0, 0, 0>> \o <<0, 0, 0, 0>>
        \o tree

\* The CAM maps read_cam has filled archive_cams with: none, or one for
\* archive 0 with an entry for offset 0; the last two give an original_size
\* of 3, with sample counts of 0 and of 4.
CamMaps ==
    {EmptyMap,
     [i \in {0} |-> [entries |-> [k \in {0} |->
         [magic |-> <<50398, 7168>>, original_size |-> <<0, 46>>,
          compressed_size |-> <<0, 4>>, sample_rate |-> <<0, 22050>>,
          channels |-> 2, sample_count |-> <<0, 1>>, header_size |-> <<0, 44>>,
          vpk_content_offset |-> 0]]]],
     [i \in {0} |-> [entries |-> [k \in {0} |->
         [magic |-> <<50398, 7168>>, original_size |-> <<0, 3>>,
          compressed_size |-> <<0, 4>>, sample_rate |-> <<0, 22050>>,
          channels |-> 0, sample_count |-> <<0, 0>>, header_size |-> <<0, 44>>,
          vpk_content_offset |-> 0]]]],
     [i \in {0} |-> [entries |-> [k \in {0} |->
         [magic |-> <<50398, 7168>>, original_size |-> <<0, 3>>,
          compressed_size |-> <<0, 4>>, sample_rate |-> <<0, 22050>>,
          channels |-> 1, sample_count |-> <<0, 4>>, header_size |-> <<0, 44>>,
          vpk_content_offset |-> 0]]]]}

\* A Respawn value as from_file and read_cam leave it.
Loaded(f, cams) ==
    [PakWorker_from_file("respawn", f, 0).vpk EXCEPT !.archive_cams = cams]

\* The crc values a Respawn entry is stored with: the CRC of what read_file
\* assembles from the archives on disk, and a value that is not.
StoredCrcsRespawn(e, cams) ==
    {crc32(VPKRespawn_read_file(Loaded(ReadFileRespawnBytes(e, 5), cams), Disk,
                                FilePath(<<100>>, <<97>>, e.ext), FALSE).fed), 5}

InitRead ==
    /\ \/ /\ file \in DirFilesV1
          /\ vpk = PakWorker_from_file("v1", file, 0).vpk
       \/ \E e \in ReadEntriesRespawn, cams \in CamMaps :
              \E crc \in StoredCrcsRespawn(e, cams) :
                  /\ file = ReadFileRespawnBytes(e, crc)
                  /\ vpk = Loaded(file, cams)
    /\ archives \in Disks
    /\ pos = 0
    /\ out = <<>>
    /\ hdr = NoHeader
    /\ probes = NoProbes
    /\ ret = NoRet
    /\ back = NoVPK
    /\ opened = {}
    /\ data = None
    /\ CamIdle

\* The paths asked for: the files of the tree and one that is not there.
MissingPath == <<100, 47, 120, 46, 116>>

Paths == DOMAIN vpk.tree.files \cup {MissingPath}

\* The mappings a caller hands to extract_file_mem_map: none, the archives
\* on disk, those with the directory file mapped as archive 0xFF7F, or
\* archive 0 alone.
MmapChoices ==
    {EmptyMap, archives, Insert(archives, 65407, file),
     [i \in DOMAIN archives \cap {0} |-> archives[i]]}

\* An operation that maps an archive of the disk itself when the caller
\* supplied no mapping for its index
Mappings_with_disk(mmaps, disk) ==
    [i \in DOMAIN mmaps \cup DOMAIN disk |->
        IF i \in DOMAIN mmaps THEN mmaps[i] ELSE disk[i]]

\* The mappings extract_file_mem_map consults: archive_mmaps, the map the
\* caller supplied, and nothing of the disk.
Mappings(mmaps, disk) == mmaps

\* The operations take &self and change neither the value nor the archives,
\* so every call starts from the loaded state: a behaviour is one call.
\* What a call leaves: the value read_file returned, the file at the output
\* path of the call, the files it opened, and its result.
Finish(op, file_path, checks, mmaps, r) ==
    /\ data' = IF r.tag = "Some" THEN Some(r.data) ELSE None
    /\ out' = r.out
    /\ opened' = r.opened
    /\ ret' = [op |-> op, tag |-> r.tag, before |-> 0, why |-> r.why,
               path |-> file_path, checks |-> checks, mmaps |-> mmaps,
               created |-> r.created, checked |-> r.checked, fed |-> r.fed]
    /\ UNCHANGED <<file, pos, hdr, probes, vpk, back, archives, camVars>>

ReadFileV1 ==
    /\ vpk.kind = "v1"
    /\ ret.op = "none"
    /\ \E file_path \in Paths :
        \E r \in {VPKVersion1_read_file(vpk, file, archives, file_path)} :
            Finish("VPKVersion1::read_file", file_path, FALSE, EmptyMap, r)

ExtractFileV1 ==
    /\ vpk.kind = "v1"
    /\ ret.op = "none"
    /\ \E file_path \in Paths :
        \E r \in {VPKVersion1_extract_file(vpk, file, archives, file_path)} :
            Finish("VPKVersion1::extract_file", file_path, FALSE, EmptyMap, r)

ExtractFileMemMapV1 ==
    /\ vpk.kind = "v1"
    /\ ret.op = "none"
    /\ \E file_path \in Paths, mmaps \in MmapChoices :
        \E r \in {VPKVersion1_extract_file_mem_map(
                      vpk, Mappings(mmaps, archives), file_path)} :
            Finish("VPKVersion1::extract_file_mem_map", file_path, FALSE, mmaps, r)

ReadFileRespawn ==
    /\ vpk.kind = "respawn"
    /\ ret.op = "none"
    /\ \E file_path \in Paths, checks \in BOOLEAN :
        \E r \in {VPKRespawn_read_file(vpk, archives, file_path, checks)} :
            Finish("VPKRespawn::read_file", file_path, checks, EmptyMap, r)

ExtractFileRespawn ==
    /\ vpk.kind = "respawn"
    /\ ret.op = "none"
    /\ \E file_path \in Paths, checks \in BOOLEAN :
        \E r \in {VPKRespawn_extract_file(vpk, archives, file_path, checks)} :
            Finish("VPKRespawn::extract_file", file_path, checks, EmptyMap, r)

ExtractFileMemMapRespawn ==
    /\ vpk.kind = "respawn"
    /\ ret.op = "none"
    /\ \E file_path \in Paths, checks \in BOOLEAN, mmaps \in MmapChoices :
        \E r \in {VPKRespawn_extract_file_mem_map(
                      vpk, Mappings(mmaps, archives), file_path, checks)} :
            Finish("VPKRespawn::extract_file_mem_map", file_path, checks, mmaps, r)

NextRead ==
    \/ ReadFileV1 \/ ExtractFileV1 \/ ExtractFileMemMapV1
    \/ ReadFileRespawn \/ ExtractFileRespawn \/ ExtractFileMemMapRespawn

SpecRead == InitRead /\ [][NextRead]_vars

---------------------------------------------------------------------------
(* Claims about reading (SpecRead)                                         *)

ReadFileOps == {"VPKVersion1::read_file", "VPKRespawn::read_file"}

ExtractOps ==
    {"VPKVersion1::extract_file", "VPKVersion1::extract_file_mem_map",
     "VPKRespawn::extract_file", "VPKRespawn::extract_file_mem_map"}

\* The bytes of the directory file from the end of the tree plus offset,
\* at most length of them.
EofBytes(offset, length) ==
    LET from == SizeOfVPKHeaderV1 + vpk.header.tree_size + offset
    IN  SubSeq(file, from + 1, Min(from + length, Len(file)))

\* C9: for a V1 entry with archive_index 0x7FFF and entry_length > 0,
\* read_file and extract_file open the directory file and no numbered
\* archive, and the data bytes they take are the entry_length bytes of the
\* directory file at 12 + tree_size + entry_offset.
C9_EofDataAddressing ==
    (/\ ret.op \in {"VPKVersion1::read_file", "VPKVersion1::extract_file"}
     /\ ret.path \in DOMAIN vpk.tree.files
     /\ vpk.tree.files[ret.path].archive_index = 32767
     /\ vpk.tree.files[ret.path].entry_length > 0)
        => LET entry == vpk.tree.files[ret.path]
               preload == IF entry.preload_length > 0
                          THEN vpk.tree.preload[ret.path] ELSE <<>>
           IN  /\ opened = {DirName}
               /\ ret.checked
                    => ret.fed = preload \o EofBytes(entry.entry_offset,
                                                     entry.entry_length)

\* What the code does for the value it compares with: an entry with
\* archive_index 0xFF7F is read from the directory file, and every other
\* index, 0x7FFF among them, names a numbered archive.
C9_SentinelAsCoded ==
    (/\ ret.op \in {"VPKVersion1::read_file", "VPKVersion1::extract_file"}
     /\ ret.path \in DOMAIN vpk.tree.files
     /\ vpk.tree.files[ret.path].entry_length > 0)
        => LET entry == vpk.tree.files[ret.path]
               preload == IF entry.preload_length > 0
                          THEN vpk.tree.preload[ret.path] ELSE <<>>
           IN  IF entry.archive_index = 65407
               THEN /\ opened = {DirName}
                    /\ ret.checked
                         => ret.fed = preload \o EofBytes(entry.entry_offset,
                                                          entry.entry_length)
               ELSE opened = {ArchiveName(entry.archive_index)}

\* The spellings of the extension "wav" in every ASCII letter case
WavSpellings == {<<w, a, v>> : w \in {119, 87}, a \in {97, 65}, v \in {118, 86}}

\* C10: when an operation has assembled the bytes of a file, it reports the
\* integrity error (read_file: None; extract_file and extract_file_mem_map:
\* BadData) if the CRC-32 of the assembled bytes differs from the stored
\* crc and the extension is not "wav"; a Respawn operation on a path whose
\* extension is "wav" in any letter case succeeds although the CRC differs;
\* and an operation whose CRC matches succeeds, read_file with the
\* assembled bytes.
C10_CrcEnforced ==
    (ret.op \in ReadFileOps \cup ExtractOps /\ ret.checked)
        => LET entry == vpk.tree.files[ret.path]
               differs == crc32(ret.fed) # entry.crc
               wav == Path_extension(ret.path) \in WavSpellings
               success == IF ret.op \in ReadFileOps
                          THEN ret.tag = "Some" /\ data = Some(ret.fed)
                          ELSE ret.tag = "Ok"
               integrity == IF ret.op \in ReadFileOps
                            THEN ret.tag = "None" /\ data = None
                            ELSE ret.tag = "BadData"
           IN  /\ differs /\ ~wav => integrity
               /\ differs /\ wav /\ vpk.kind = "respawn" => success
               /\ ~differs => success

\* A Respawn read of "d/a.WaV" whose assembled bytes do not have the stored
\* crc returned them.
C10_Witness ==
    /\ ret.op = "VPKRespawn::read_file"
    /\ ret.checked
    /\ Path_extension(ret.path) = <<87, 97, 86>>
    /\ crc32(ret.fed) # vpk.tree.files[ret.path].crc
    /\ ret.tag = "Some"
    /\ data.bytes # <<>>

\* A read and an extraction of a file that is not a WAV reported the
\* mismatch.
C10_WitnessMismatch ==
    /\ ret.op \in {"VPKVersion1::extract_file", "VPKRespawn::extract_file_mem_map"}
    /\ ret.checked
    /\ crc32(ret.fed) # vpk.tree.files[ret.path].crc
    /\ ret.tag = "BadData"

\* C11: for a path that is not a key of tree.files, read_file returns None
\* and extract_file and extract_file_mem_map return FileNotFound, no output
\* file or parent directory was created and no archive was opened.
C11_MissingPath ==
    (ret.op \in ReadFileOps \cup ExtractOps /\ ret.path \notin DOMAIN vpk.tree.files)
        => /\ IF ret.op \in ReadFileOps
              THEN ret.tag = "None" /\ data = None
              ELSE ret.tag = "FileNotFound"
           /\ ~ret.created
           /\ out = <<>>
           /\ opened = {}

\* extract_file was asked for a path the tree does not have while the
\* archives were on disk.
C11_Witness ==
    /\ ret.op = "VPKRespawn::extract_file"
    /\ ret.path = MissingPath
    /\ ret.path \notin DOMAIN vpk.tree.files
    /\ archives = Disk
    /\ ret.tag = "FileNotFound"

MemMapOps ==
    {"VPKVersion1::extract_file_mem_map", "VPKRespawn::extract_file_mem_map"}

\* The archive indices of the fragments an extraction needs: the archive of
\* a V1 entry with entry_length > 0; the archive of the first part of a
\* Respawn entry and of every part with entry_length_uncompressed > 0.
NeededIndices(entry) ==
    IF vpk.kind = "v1"
    THEN IF entry.entry_length > 0 THEN {entry.archive_index} ELSE {}
    ELSE IF entry.file_parts = <<>> THEN {}
    ELSE {entry.file_parts[1].archive_index}
         \cup {entry.file_parts[i].archive_index :
                  i \in {j \in 1..Len(entry.file_parts) :
                            entry.file_parts[j].entry_length_uncompressed > 0}}

\* The archive index of the first fragment an extraction touches
FirstIndex(entry) ==
    IF vpk.kind = "v1" THEN entry.archive_index
    ELSE entry.file_parts[1].archive_index

C12_WitnessV1 ==
    /\ ret.op = "VPKVersion1::extract_file_mem_map"
    /\ ret.path \in DOMAIN vpk.tree.files
    /\ vpk.tree.files[ret.path].entry_length > 0
    /\ vpk.tree.files[ret.path].archive_index \in DOMAIN archives
    /\ ret.mmaps = EmptyMap
    /\ ret.tag = "MemoryMappedFileNotFound"

\* What the parts of a list contribute, in list order: for each part with
\* entry_length_uncompressed > 0 the bytes the archive holds in
\* [entry_offset, entry_offset + entry_length), verbatim or decompressed.
RECURSIVE Contributions(_, _, _)
Contributions(parts, i, disk) ==
    IF i > Len(parts) THEN <<>>
    ELSE IF parts[i].entry_length_uncompressed = 0
    THEN Contributions(parts, i + 1, disk)
    ELSE LET f == disk[parts[i].archive_index]
             held == SubSeq(f, parts[i].entry_offset + 1,
                            Min(parts[i].entry_offset + parts[i].entry_length,
                                Len(f)))
         IN  (IF parts[i].entry_length = parts[i].entry_length_uncompressed
              THEN held
              ELSE decompress(held, parts[i].entry_length_uncompressed))
             \o Contributions(parts, i + 1, disk)

RECURSIVE SumUncompressed(_, _)
SumUncompressed(parts, i) ==
    IF i > Len(parts) THEN 0
    ELSE parts[i].entry_length_uncompressed + SumUncompressed(parts, i + 1)

\* A successful VPKRespawn::read_file of a path that is not a WAV
AssembledRespawn ==
    /\ ret.op = "VPKRespawn::read_file"
    /\ ret.path \in DOMAIN vpk.tree.files
    /\ ~is_wav(ret.path)
    /\ data.some

PreloadOf(path) ==
    IF vpk.tree.files[path].preload_length > 0 THEN vpk.tree.preload[path]
    ELSE <<>>

\* C13: a successful read_file of a Respawn entry that is not a WAV returns
\* the preload bytes followed, in list order, by the contribution of each
\* part with entry_length_uncompressed > 0, and the length of the result is
\* the preload length plus the sum of entry_length_uncompressed over all
\* parts.
C13_Assembly ==
    AssembledRespawn
        => /\ data.bytes = PreloadOf(ret.path)
                \o Contributions(vpk.tree.files[ret.path].file_parts, 1, archives)
           /\ Len(data.bytes) = Len(PreloadOf(ret.path))
                + SumUncompressed(vpk.tree.files[ret.path].file_parts, 1)

\* The order and the sources of the bytes are as C13 says; the bytes a part
\* contributes are those the archive holds of its range.
C13_AssemblyAsCoded ==
    AssembledRespawn
        => /\ data.bytes = PreloadOf(ret.path)
                \o Contributions(vpk.tree.files[ret.path].file_parts, 1, archives)
           /\ opened = {ArchiveName(vpk.tree.files[ret.path].file_parts[i].archive_index) :
                           i \in {j \in 1..Len(vpk.tree.files[ret.path].file_parts) :
                                     j = 1 \/ vpk.tree.files[ret.path].file_parts[j]
                                                  .entry_length_uncompressed > 0}}

\* Two parts in two archives, both held in full
C13_WitnessTwoArchives ==
    /\ AssembledRespawn
    /\ Len(vpk.tree.files[ret.path].file_parts) = 2
    /\ vpk.tree.files[ret.path].file_parts[1].archive_index
         # vpk.tree.files[ret.path].file_parts[2].archive_index
    /\ vpk.tree.files[ret.path].preload_length > 0
    /\ Len(data.bytes) = Len(PreloadOf(ret.path))
         + SumUncompressed(vpk.tree.files[ret.path].file_parts, 1)

---------------------------------------------------------------------------
(* WAV helpers: the header made for a CAM entry                            *)

\* The CAM entries a header is made for: no samples, a few, those of the
\* test file, and counts and rates near the top of u32.
CamEntries ==
    {[NoCamEntry EXCEPT !.magic = <<50398, 7168>>, !.header_size = <<0, 44>>,
                        !.sample_count = sc, !.channels = ch,
                        !.sample_rate = sr] :
        sc \in {<<0, 0>>, <<0, 1>>, <<0, 4>>, <<2, 26586>>, <<32768, 0>>,
                <<65535, 65535>>},
        ch \in {0, 1, 2, 255},
        sr \in {<<0, 0>>, <<0, 22050>>, <<0, 44100>>, <<4096, 0>>,
                <<65535, 65535>>}}

\* Archives a WAV part lies in, from offset 0 or 2: 44 bytes and then a
\* run of two 0xCB before the samples, no run, 0xCB in the 44 bytes only, a
\* run up to the end of the archive, an archive that ends with the 44
\* bytes, and one that is shorter.
WavArchives ==
    {[i \in 1..44 |-> i] \o <<203, 203, 31, 32>>,
     [i \in 1..44 |-> i] \o <<31, 32>>,
     [i \in 1..44 |-> 203] \o <<31, 32>>,
     [i \in 1..44 |-> i] \o <<203, 203>>,
     [i \in 1..44 |-> i],
     <<1, 2, 3>>}

InitWav ==
    /\ wav_entry \in CamEntries
    /\ cam_file = <<>>
    /\ cam = NoCam
    /\ CacheIdle
    /\ file \in WavArchives
    /\ pos \in {0, 2}
    /\ out = <<>>
    /\ hdr = NoHeader
    /\ probes = NoProbes
    /\ ret = NoRet
    /\ vpk = NoVPK
    /\ back = NoVPK
    /\ archives = EmptyMap
    /\ opened = {}
    /\ data = None

\* create_wav_header(&wav_entry).  The build decides whether arithmetic
\* that leaves u32 panics (overflow checks) or wraps.
CreateWavHeader ==
    /\ ret.op = "none"
    /\ \E checks \in BOOLEAN :
         \E r \in {create_wav_header(wav_entry)} :
            /\ out' = IF checks /\ r.wrapped THEN <<>> ELSE r.bytes
            /\ ret' = [op |-> "create_wav_header",
                       tag |-> IF checks /\ r.wrapped THEN "panic" ELSE "Ok",
                       before |-> 0, checks |-> checks]
    /\ UNCHANGED <<file, pos, hdr, probes, workerVars, camVars>>

\* seek_to_wav_data(&mut file) with the cursor at the part's entry_offset
SeekToWavData ==
    /\ ret.op = "none"
    /\ \E r \in {seek_to_wav_data(file, pos)} :
          /\ pos' = r.pos
          /\ ret' = [op |-> "seek_to_wav_data", tag |-> "Ok", before |-> pos,
                     val |-> r.val]
    /\ UNCHANGED <<file, out, hdr, probes, workerVars, camVars>>

\* seek_to_wav_data_mem_map(&file, entry_offset) on the mapped archive
SeekToWavDataMemMap ==
    /\ ret.op = "none"
    /\ \E r \in {seek_to_wav_data_mem_map(file, pos)} :
          ret' = [op |-> "seek_to_wav_data_mem_map",
                  tag |-> IF r.panic THEN "panic" ELSE "Ok", before |-> pos,
                  val |-> IF r.panic THEN 0 ELSE r.val]
    /\ UNCHANGED <<file, pos, out, hdr, probes, workerVars, camVars>>

NextWav == CreateWavHeader \/ SeekToWavData \/ SeekToWavDataMemMap

SpecWav == InitWav /\ [][NextWav]_vars

---------------------------------------------------------------------------
(* Claims about the WAV helpers (SpecWav)                                  *)

\* The entries whose data size and byte rate are below 2^31
SmallCamEntry(e) == e.sample_count[1] < 64 /\ e.sample_rate[1] < 8

\* The 44 bytes C14 lays out, for dataSize = 2 * sample_count * channels
WavLayout(e) ==
    LET dataSize == 2 * U32Nat(e.sample_count) * e.channels
        rate == U32Nat(e.sample_rate)
    IN  <<82, 73, 70, 70>> \o to_le_bytes(dataSize - 8 + 44, 4)
        \o <<87, 65, 86, 69>> \o <<102, 109, 116, 32>>
        \o to_le_bytes(16, 4) \o to_le_bytes(1, 2)
        \o to_le_bytes(e.channels, 2)
        \o to_le_bytes(rate, 4)
        \o to_le_bytes((rate * 16 * e.channels) \div 8, 4)
        \o to_le_bytes((16 * e.channels) \div 8, 2)
        \o to_le_bytes(16, 2)
        \o <<100, 97, 116, 97>> \o to_le_bytes(dataSize, 4)

\* C14: for every CamEntry create_wav_header returns exactly 44 bytes, laid
\* out as "RIFF", dataSize - 8 + 44, "WAVE", "fmt ", 16, 1, channels,
\* sample_rate, sample_rate * 16 * channels / 8, 16 * channels / 8, 16,
\* "data", dataSize, with dataSize = 2 * sample_count * channels.
C14_WavHeader ==
    ret.op = "create_wav_header"
        => /\ ret.tag = "Ok"
           /\ Len(out) = 44
           /\ SmallCamEntry(wav_entry) => out = WavLayout(wav_entry)

\* Whenever create_wav_header returns, it returns 44 bytes, and they are the
\* layout of C14 when the sizes stay below 2^31.
C14_WavHeaderAsCoded ==
    (ret.op = "create_wav_header" /\ ret.tag = "Ok")
        => /\ Len(out) = 44
           /\ SmallCamEntry(wav_entry) => out = WavLayout(wav_entry)

\* The header of the entry of the test file
C14_WitnessTestEntry ==
    /\ ret.op = "create_wav_header"
    /\ ret.checks
    /\ wav_entry.sample_count = <<2, 26586>>
    /\ wav_entry.channels = 1
    /\ wav_entry.sample_rate = <<0, 44100>>
    /\ out = <<82, 73, 70, 70, 216, 207, 4, 0, 87, 65, 86, 69, 102, 109, 116, 32,
               16, 0, 0, 0, 1, 0, 1, 0, 68, 172, 0, 0, 136, 88, 1, 0, 2, 0, 16, 0,
               100, 97, 116, 97, 180, 207, 4, 0>>

---------------------------------------------------------------------------
(* CAM sidecar files: parse, then look up                                  *)

MaxRecords == 3

\* The bytes of one record: the magic or another value, original_size as
\* a mark that tells records apart, 44100 Hz, one channel, and the offset.
CamRecordBytes(good, mark, offset) ==
    (IF good THEN <<0, 28, 222, 196>> ELSE <<1, 28, 222, 196>>)
    \o <<mark, 0, 0, 0>> \o <<4, 0, 0, 0>> \o <<68, 172, 0>> \o <<1>>
    \o <<10, 0, 0, 0>> \o <<44, 0, 0, 0>> \o <<offset, 0, 0, 0, 0, 0, 0, 0>>

CamOffsets == {0, 7}

CamRecords ==
    {CamRecordBytes(good, mark, offset) :
        good \in BOOLEAN, mark \in {1, 2}, offset \in CamOffsets}

RECURSIVE CamFilesOf(_)
CamFilesOf(n) ==
    IF n = 0 THEN {<<>>}
    ELSE CamFilesOf(n - 1)
         \cup {f \o r : f \in {g \in CamFilesOf(n - 1) : Len(g) = 32 * (n - 1)},
                        r \in CamRecords}

\* Sidecar files of up to MaxRecords whole records, and the same with the
\* last byte or the last offset missing, or with one byte more.
CamFiles ==
    UNION {{f, f \o <<0>>}
           \cup (IF f = <<>> THEN {}
                 ELSE {SubSeq(f, 1, Len(f) - 1), SubSeq(f, 1, Len(f) - 8)}) :
           f \in CamFilesOf(MaxRecords)}

InitCam ==
    /\ cam_file \in CamFiles
    /\ wav_entry = NoCamEntry
    /\ cam = NoCam
    /\ CacheIdle
    /\ file = <<>>
    /\ pos = 0
    /\ out = <<>>
    /\ hdr = NoHeader
    /\ probes = NoProbes
    /\ ret = NoRet
    /\ vpk = NoVPK
    /\ back = NoVPK
    /\ archives = EmptyMap
    /\ opened = {}
    /\ data = None

\* VPKRespawnCam::from_file(&mut cam_file)
CamFromFile ==
    /\ cam.tag = "none"
    /\ \E r \in {VPKRespawnCam_from_file(cam_file)} :
          /\ cam' = r
          /\ ret' = [op |-> "VPKRespawnCam::from_file", tag |-> r.tag, before |-> 0]
    /\ UNCHANGED <<file, pos, out, hdr, probes, workerVars, wav_entry, cam_file,
                   cacheVars>>

\* cam.find_entry(k) on the parsed sidecar
FindEntry ==
    /\ cam.tag = "Ok"
    /\ ret.op = "VPKRespawnCam::from_file"
    /\ \E k \in CamOffsets \cup {9} :
         \E r \in {find_entry(cam.entries, k)} :
            ret' = [op |-> "find_entry", tag |-> IF r.some THEN "Some" ELSE "None",
                    before |-> 0, offset |-> k, entry |-> r.entry]
    /\ UNCHANGED <<file, pos, out, hdr, probes, workerVars, camVars>>

NextCam == CamFromFile \/ FindEntry

SpecCam == InitCam /\ [][NextCam]_vars

---------------------------------------------------------------------------
(* Claims about the CAM sidecar (SpecCam)                                  *)

\* The i-th run of 32 bytes of the sidecar
RecordRun(i) == SubSeq(cam_file, 32 * (i - 1) + 1, 32 * i)

\* The runs that carry the magic and the offset k
Matching(k) ==
    {i \in 1..(Len(cam_file) \div 32) :
        /\ SubSeq(RecordRun(i), 1, 4) = <<0, 28, 222, 196>>
        /\ from_le_bytes(SubSeq(RecordRun(i), 25, 32)) = k}

LastMatching(k) == CHOOSE i \in Matching(k) : \A j \in Matching(k) : j <= i

\* The entry a run of 32 bytes stands for
EntryOfRun(run) ==
    [magic |-> ToHalves(from_le_bytes(SubSeq(run, 1, 4))),
     original_size |-> ToHalves(from_le_bytes(SubSeq(run, 5, 8))),
     compressed_size |-> ToHalves(from_le_bytes(SubSeq(run, 9, 12))),
     sample_rate |-> ToHalves(from_le_bytes(SubSeq(run, 13, 15))),
     channels |-> run[16],
     sample_count |-> ToHalves(from_le_bytes(SubSeq(run, 17, 20))),
     header_size |-> ToHalves(from_le_bytes(SubSeq(run, 21, 24))),
     vpk_content_offset |-> from_le_bytes(SubSeq(run, 25, 32))]

\* C15: after from_file returns Ok the map holds, under each offset k, the
\* last record in file order with the magic and that offset; a record with
\* another magic adds nothing and removes nothing; every value under key k
\* has vpk_content_offset k; find_entry(k) returns that record, and None
\* when no record with the magic has offset k.
C15_CamIndex ==
    /\ cam.tag = "Ok"
         => /\ \A k \in CamOffsets \cup {9} :
                  IF Matching(k) = {} THEN k \notin DOMAIN cam.entries
                  ELSE /\ k \in DOMAIN cam.entries
                       /\ cam.entries[k] = EntryOfRun(RecordRun(LastMatching(k)))
            /\ \A k \in DOMAIN cam.entries :
                  /\ k \in CamOffsets
                  /\ cam.entries[k].vpk_content_offset = k
    /\ ret.op = "find_entry"
         => IF Matching(ret.offset) = {} THEN ret.tag = "None"
            ELSE /\ ret.tag = "Some"
                 /\ ret.entry = EntryOfRun(RecordRun(LastMatching(ret.offset)))

\* Two records with the magic and offset 7, marks 1 then 2, then a record
\* with another magic and offset 7: find_entry(7) returns the second.
C15_Witness ==
    /\ ret.op = "find_entry"
    /\ ret.offset = 7
    /\ cam_file = CamRecordBytes(TRUE, 1, 7) \o CamRecordBytes(TRUE, 2, 7)
                  \o CamRecordBytes(FALSE, 1, 7)
    /\ ret.tag = "Some"
    /\ ret.entry.original_size = <<0, 2>>

\* C19: each record occupies 33 bytes: a sidecar that from_file parses
\* into N records is 33 * N bytes long, the stream has advanced 33 bytes
\* per record, and at most N entries result.
C19_RecordSize33 ==
    cam.tag = "Ok"
        => /\ Len(cam_file) = 33 * cam.records
           /\ cam.pos = 33 * cam.records
           /\ Cardinality(DOMAIN cam.entries) <= cam.records

\* C19 with the size the reads add up to: a record occupies 32 bytes.  A
\* sidecar of 32 * N bytes is parsed as N records, with the stream advanced
\* 32 bytes per record and at most N entries made; a sidecar of any other
\* length is refused.
C19_RecordSize32 ==
    cam.tag # "none"
        => /\ cam.tag = IF Len(cam_file) % 32 = 0 THEN "Ok" ELSE "Util"
           /\ cam.tag = "Ok"
                => /\ Len(cam_file) = 32 * cam.records
                   /\ cam.pos = 32 * cam.records
                   /\ Cardinality(DOMAIN cam.entries) <= cam.records

\* A sidecar of more than one record parsed into fewer entries than records
C19_Witness ==
    /\ cam.tag = "Ok"
    /\ cam.records >= 2
    /\ Len(cam_file) = 32 * cam.records
    /\ Cardinality(DOMAIN cam.entries) < cam.records

\* A sidecar of 33 bytes is refused
C19_Witness33 ==
    /\ Len(cam_file) = 33
    /\ cam.tag = "Util"

---------------------------------------------------------------------------
(* The CAM cache: get_cam_entry called from several threads                *)

MaxThreads == 2

Threads == 1..MaxThreads

\* The sidecar files on disk, by path: one that parses and holds an entry
\* for offset 0, one that ends inside a record.  "c.cam" does not exist.
CamDisk ==
    [path \in {"a.cam", "b.cam"} |->
        IF path = "a.cam"
        THEN CamRecordBytes(TRUE, 1, 0) \o CamRecordBytes(FALSE, 2, 7)
        ELSE SubSeq(CamRecordBytes(TRUE, 1, 0), 1, 31)]

\* What VPKRespawnCam::from_file makes of each sidecar file on disk
CamParsed ==
    [path \in DOMAIN CamDisk |-> VPKRespawnCam_from_file(CamDisk[path])]

CachePaths == {"a.cam", "b.cam", "c.cam"}

\* A call that has not taken its first step
NewCall(op, cam_path, entry_offset) ==
    [op |-> op, pc |-> "start", cam_path |-> cam_path,
     entry_offset |-> entry_offset, tag |-> "none", why |-> "",
     entry |-> NoCamEntry, missed |-> FALSE, via |-> "", parsed |-> NoCam]

InitCache ==
    /\ CAM_MAP = EmptyMap
    /\ lock = Unlocked
    /\ calls \in [Threads -> {NewCall("get_cam_entry", path, k) :
                                 path \in CachePaths, k \in CamOffsets}]
    /\ parses = [path \in CachePaths |-> 0]
    /\ wav_entry = NoCamEntry
    /\ cam_file = <<>>
    /\ cam = NoCam
    /\ file = <<>>
    /\ pos = 0
    /\ out = <<>>
    /\ hdr = NoHeader
    /\ probes = NoProbes
    /\ ret = NoRet
    /\ vpk = NoVPK
    /\ back = NoVPK
    /\ archives = EmptyMap
    /\ opened = {}
    /\ data = None

notCache == <<file, pos, out, hdr, probes, ret, workerVars, wav_entry, cam_file, cam>>

\* The call of t with the result of cam.find_entry(entry_offset) on a
\* cached or parsed sidecar: Ok(entry) or Err("Failed to find cam entry").
Found(c, entries, via) ==
    LET r == find_entry(entries, c.entry_offset)
    IN  [c EXCEPT !.pc = "done",
                  !.tag = IF r.some THEN "Ok" ELSE "Err",
                  !.why = IF r.some THEN "" ELSE "Failed to find cam entry",
                  !.entry = r.entry,
                  !.via = via]

Failed(c, why, via) ==
    [c EXCEPT !.pc = "done", !.tag = "Err", !.why = why, !.via = via]

\* A read guard that outlives its block
drop_read_guard_kept(l, t) == l

\* The end of the block `{ let cam_map = CAM_MAP.read()...; ... }`, and every
\* return inside it: the read guard of t is dropped.
drop_read_guard(l, t) == [l EXCEPT !.readers = @ \ {t}]

\* CAM_MAP.read(): granted while nobody writes
ReadLock(t) ==
    /\ calls[t].op = "get_cam_entry"
    /\ calls[t].pc = "start"
    /\ lock.writer = 0
    /\ lock' = [lock EXCEPT !.readers = @ \cup {t}]
    /\ calls' = [calls EXCEPT ![t].pc = "read"]
    /\ UNCHANGED <<CAM_MAP, parses, notCache>>

\* The block under the read guard: a cached sidecar answers the call; the
\* guard is dropped at the end of the block either way.
ReadCheck(t) ==
    /\ calls[t].op = "get_cam_entry"
    /\ calls[t].pc = "read"
    /\ lock' = drop_read_guard(lock, t)
    /\ calls' = [calls EXCEPT ![t] =
                    IF calls[t].cam_path \in DOMAIN CAM_MAP
                    THEN Found(calls[t], CAM_MAP[calls[t].cam_path].entries, "read")
                    ELSE [calls[t] EXCEPT !.pc = "missed", !.missed = TRUE]]
    /\ UNCHANGED <<CAM_MAP, parses, notCache>>

\* CAM_MAP.write(): granted while nobody reads or writes
WriteLock(t) ==
    /\ calls[t].op = "get_cam_entry"
    /\ calls[t].pc = "missed"
    /\ lock = Unlocked
    /\ lock' = [lock EXCEPT !.writer = t]
    /\ calls' = [calls EXCEPT ![t].pc = "recheck"]
    /\ UNCHANGED <<CAM_MAP, parses, notCache>>

\* A second look that never finds the path
RecheckHit_never(map, cam_path) == FALSE

\* cam_map.contains_key(&cam_path) under the write guard
RecheckHit(map, cam_path) == cam_path \in DOMAIN map

\* The second look at the cache, under the write guard
Recheck(t) ==
    /\ calls[t].op = "get_cam_entry"
    /\ calls[t].pc = "recheck"
    /\ IF RecheckHit(CAM_MAP, calls[t].cam_path)
       THEN /\ calls' = [calls EXCEPT ![t] =
                    Found(calls[t], CAM_MAP[calls[t].cam_path].entries, "recheck")]
            /\ lock' = [lock EXCEPT !.writer = 0]
       ELSE /\ calls' = [calls EXCEPT ![t].pc = "open"]
            /\ UNCHANGED lock
    /\ UNCHANGED <<CAM_MAP, parses, notCache>>

\* File::open(cam_path) and VPKRespawnCam::from_file.  A file that cannot
\* be opened ends the call with the guard dropped on return.
OpenAndParse(t) ==
    /\ calls[t].op = "get_cam_entry"
    /\ calls[t].pc = "open"
    /\ IF calls[t].cam_path \notin DOMAIN CamDisk
       THEN /\ calls' = [calls EXCEPT ![t] =
                    Failed(calls[t], "Failed to open CAM file", "open")]
            /\ lock' = [lock EXCEPT !.writer = 0]
            /\ UNCHANGED parses
       ELSE /\ calls' = [calls EXCEPT
                    ![t].pc = "insert",
                    ![t].parsed = CamParsed[calls[t].cam_path]]
            /\ parses' = [parses EXCEPT ![calls[t].cam_path] = @ + 1]
            /\ UNCHANGED lock
    /\ UNCHANGED <<CAM_MAP, notCache>>

\* if let Ok(cam) = cam: find the entry, insert the sidecar, return; a
\* sidecar that did not parse is not cached.  The guard is dropped.
InsertParsed(t) ==
    /\ calls[t].op = "get_cam_entry"
    /\ calls[t].pc = "insert"
    /\ IF calls[t].parsed.tag = "Ok"
       THEN /\ CAM_MAP' = Insert(CAM_MAP, calls[t].cam_path,
                                 [entries |-> calls[t].parsed.entries])
            /\ calls' = [calls EXCEPT ![t] =
                    Found(calls[t], calls[t].parsed.entries, "parse")]
       ELSE /\ calls' = [calls EXCEPT ![t] =
                    Failed(calls[t], "Failed to find cam entry", "parse")]
            /\ UNCHANGED CAM_MAP
    /\ lock' = [lock EXCEPT !.writer = 0]
    /\ UNCHANGED <<parses, notCache>>

get_cam_entry(t) ==
    \/ ReadLock(t)
    \/ ReadCheck(t)
    \/ WriteLock(t)
    \/ Recheck(t)
    \/ OpenAndParse(t)
    \/ InsertParsed(t)

NextCache == \E t \in Threads : get_cam_entry(t)

SpecCache == InitCache /\ [][NextCache]_vars

---------------------------------------------------------------------------
(* Claims about the CAM cache (SpecCache)                                  *)

\* The sidecar paths whose file parses
ParsingPaths ==
    {path \in DOMAIN CamDisk : VPKRespawnCam_from_file(CamDisk[path]).tag = "Ok"}

\* C16: with concurrent get_cam_entry calls, a sidecar whose file parses is
\* opened and parsed at most once; a call that missed under the read lock
\* looks again under the write lock and goes on to parse only while the
\* path is absent; the parse and the insertion happen with the write lock
\* held by the caller and nobody reading.
C16_ParsedOnce ==
    /\ \A path \in ParsingPaths : parses[path] <= 1
    /\ \A t \in Threads :
          /\ calls[t].pc \in {"recheck", "open", "insert"}
                => /\ lock.writer = t
                   /\ lock.readers = {}
                   /\ calls[t].missed
          /\ calls[t].pc \in {"open", "insert"}
                => calls[t].cam_path \notin DOMAIN CAM_MAP
          /\ calls[t].via = "parse" => calls[t].missed

\* Two calls for the sidecar that parses both missed under the read lock;
\* one parsed it, the other found it at the second look.
C16_Witness ==
    /\ \A t \in {1, 2} :
          /\ calls[t].cam_path = "a.cam"
          /\ calls[t].missed
          /\ calls[t].pc = "done"
    /\ calls[1].via = "parse"
    /\ calls[2].via = "recheck"
    /\ calls[2].tag = "Ok"
    /\ parses["a.cam"] = 1

---------------------------------------------------------------------------
(* Claims about the preload table of a loaded tree (SpecTree)              *)

\* C17: after from_file has returned Ok, a path is a key of tree.preload
\* exactly if tree.files[path].preload_length > 0, the bytes stored for it
\* are preload_length long, and every key of tree.preload is a key of
\* tree.files.
C17_PreloadTable ==
    (vpk.origin = "file" /\ ret.tag = "Ok"
     /\ ret.op \in {"VPKVersion1::from_file", "VPKRespawn::from_file"})
        => /\ DOMAIN vpk.tree.preload \subseteq DOMAIN vpk.tree.files
           /\ \A path \in DOMAIN vpk.tree.files :
                 /\ path \in DOMAIN vpk.tree.preload
                      <=> vpk.tree.files[path].preload_length > 0
                 /\ path \in DOMAIN vpk.tree.preload
                      => Len(vpk.tree.preload[path])
                            = vpk.tree.files[path].preload_length

\* What does hold: the keys of tree.preload are keys of tree.files, and an
\* entry with preload_length > 0 has a key in tree.preload.
C17_PreloadKeys ==
    (vpk.origin = "file" /\ ret.tag = "Ok"
     /\ ret.op \in {"VPKVersion1::from_file", "VPKRespawn::from_file"})
        => /\ DOMAIN vpk.tree.preload \subseteq DOMAIN vpk.tree.files
           /\ \A path \in DOMAIN vpk.tree.files :
                 vpk.tree.files[path].preload_length > 0
                    => path \in DOMAIN vpk.tree.preload

\* A loaded tree whose file listed a path twice, the second time without
\* preload bytes: the bytes of the first stay in tree.preload.
C17_WitnessStale ==
    /\ vpk.origin = "file"
    /\ ret.tag = "Ok"
    /\ ret.op = "VPKRespawn::from_file"
    /\ \E path \in DOMAIN vpk.tree.preload :
          /\ path \in DOMAIN vpk.tree.files
          /\ vpk.tree.files[path].preload_length = 0
          /\ vpk.tree.preload[path] = <<9, 8>>

---------------------------------------------------------------------------
(* Respawn entries decoded from a stream that ends with the entry          *)

MaxParts == 2

\* The file parts of the input entries
EntryParts ==
    [archive_index : {0, 1}, load_flags : {257}, texture_flags : {8},
     entry_offset : {0, 5}, entry_length : {3}, entry_length_uncompressed : {3}]

EntryPartLists == UNION {[1..n -> EntryParts] : n \in 0..MaxParts}

\* What follows the last file part: the sentinel and nothing else, the
\* sentinel and more of the tree, nothing at all, half a sentinel, another
\* index as the last two bytes of the file, or that index and one more byte.
EntryTails == {<<255, 255>>, <<255, 255, 0>>, <<>>, <<255>>, <<5, 0>>, <<5, 0, 1>>}

\* crc, preload_length, the parts, the tail
EntryStreams ==
    {WriteParts(parts, 1, write_u16(write_u32(<<>>, 7), preload_length)) \o tail :
        parts \in EntryPartLists, preload_length \in {0, 2}, tail \in EntryTails}

InitEntry ==
    /\ file \in EntryStreams
    /\ pos = 0
    /\ out = <<>>
    /\ hdr = NoHeader
    /\ probes = NoProbes
    /\ ret = NoRet
    /\ vpk = NoVPK
    /\ back = NoVPK
    /\ archives = EmptyMap
    /\ opened = {}
    /\ data = None
    /\ CamIdle

\* VPKDirectoryEntryRespawn::from(&mut file) at the start of the stream
DecodeEntryRespawn ==
    /\ ret.op = "none"
    /\ \E r \in {VPKDirectoryEntryRespawn_from(file, pos)} :
          /\ pos' = r.pos
          /\ ret' = [op |-> "VPKDirectoryEntryRespawn::from", tag |-> r.tag,
                     before |-> pos, entry |-> r.entry]
    /\ UNCHANGED <<file, out, hdr, probes, workerVars, camVars>>

NextEntry == DecodeEntryRespawn

SpecEntry == InitEntry /\ [][NextEntry]_vars

---------------------------------------------------------------------------
(* Claims about the Respawn entry decode (SpecEntry)                       *)

\* The number of whole file-part records of the stream (6 bytes of crc and
\* preload_length, 32 bytes a record) and the bytes after them
WholeParts == (Len(file) - 6) \div 32

TailOfEntry == SubSeq(file, 6 + 32 * WholeParts + 1, Len(file))

\* The decode returned Ok with every whole record as a file part
AllPartsRead ==
    /\ ret.tag = "Ok"
    /\ Len(ret.entry.file_parts) = WholeParts
    /\ WriteParts(ret.entry.file_parts, 1,
                  write_u16(write_u32(<<>>, ret.entry.crc),
                            ret.entry.preload_length))
         = SubSeq(file, 1, 6 + 32 * WholeParts)

\* C18: VPKDirectoryEntryRespawn::from returns Ok with every file part read
\* so far both when the parts are closed by archive_index 0xFFFF and when
\* the stream ends right after the last whole file-part record, with no
\* sentinel bytes at all.
C18_MissingSentinel ==
    ret.op = "VPKDirectoryEntryRespawn::from"
        => /\ (Len(TailOfEntry) >= 2 /\ SubSeq(TailOfEntry, 1, 2) = <<255, 255>>)
                => AllPartsRead
           /\ (WholeParts >= 1 /\ TailOfEntry = <<>>) => AllPartsRead

\* What the decode does: Ok with every part when the parts are followed by
\* 0xFFFF or by exactly two last bytes of the file, whatever their value;
\* Error::Util when fewer than two bytes follow the last part.
C18_TwoBytesAtEnd ==
    ret.op = "VPKDirectoryEntryRespawn::from"
        => /\ (Len(TailOfEntry) >= 2 /\ SubSeq(TailOfEntry, 1, 2) = <<255, 255>>)
                => AllPartsRead
           /\ Len(TailOfEntry) = 2 => AllPartsRead
           /\ Len(TailOfEntry) < 2 => ret.tag = "Util"

\* Two parts, then the end of the stream: the decode fails.
C18_WitnessNoSentinel ==
    /\ ret.op = "VPKDirectoryEntryRespawn::from"
    /\ WholeParts = 2
    /\ TailOfEntry = <<>>
    /\ ret.tag = "Util"

---------------------------------------------------------------------------
(* Claims about the 0xCB marker skip (SpecWav)                             *)

SeekOps == {"seek_to_wav_data", "seek_to_wav_data_mem_map"}

\* The length of the run of consecutive 0xCB bytes of f that begins at the
\* offset at (0 when the byte there is not 0xCB or lies outside f)
RunOfCB(f, at) ==
    CHOOSE n \in 0..Len(f) :
        /\ \A i \in 1..n : at + i <= Len(f) /\ f[at + i] = 203
        /\ at + n + 1 > Len(f) \/ f[at + n + 1] # 203

\* C20: for the first part of a Respawn WAV the number of bytes skipped is
\* the length of the run of 0xCB bytes that begins at the part's
\* entry_offset, and seek_to_wav_data and seek_to_wav_data_mem_map compute
\* the same count for the same archive bytes.
C20_MarkerSkip ==
    ret.op \in SeekOps
        => /\ ret.tag = "Ok"
           /\ ret.val = RunOfCB(file, ret.before)
           /\ ~seek_to_wav_data_mem_map(file, ret.before).panic
           /\ seek_to_wav_data_mem_map(file, ret.before).val
                = seek_to_wav_data(file, ret.before).val

\* What the two functions do when a byte other than 0xCB follows at or
\* after entry_offset + 44: both return 44 plus the length of the run of
\* 0xCB that begins at entry_offset + 44, and the stream is left at the
\* first byte after the run.
C20_SkipAsCoded ==
    (/\ ret.op \in SeekOps
     /\ ret.before + 44 + RunOfCB(file, ret.before + 44) < Len(file))
        => /\ ret.tag = "Ok"
           /\ ret.val = 44 + RunOfCB(file, ret.before + 44)
           /\ seek_to_wav_data_mem_map(file, ret.before).val
                = seek_to_wav_data(file, ret.before).val
           /\ ret.op = "seek_to_wav_data" => pos = ret.before + ret.val

\* The run reaches the end of the archive: the stream path returns one less
\* than 44 plus the run, the memory-mapped path panics on the same bytes.
C20_WitnessEnd ==
    /\ ret.op = "seek_to_wav_data"
    /\ ret.before = 0
    /\ file = [i \in 1..44 |-> i] \o <<203, 203>>
    /\ ret.val = 45
    /\ seek_to_wav_data_mem_map(file, ret.before).panic

\* 44 bytes, two 0xCB, then samples: 46 bytes are skipped from an
\* entry_offset whose byte is not 0xCB.
C20_WitnessHeader ==
    /\ ret.op = "seek_to_wav_data_mem_map"
    /\ ret.before = 0
    /\ file = [i \in 1..44 |-> i] \o <<203, 203, 31, 32>>
    /\ ret.tag = "Ok"
    /\ ret.val = 46

---------------------------------------------------------------------------
(* Claims about WAV targets of a Respawn archive (SpecRead)                *)

RespawnOps ==
    {"VPKRespawn::read_file", "VPKRespawn::extract_file",
     "VPKRespawn::extract_file_mem_map"}

\* The last call was made on a WAV path of the tree that has file parts
WavCall ==
    /\ ret.op \in RespawnOps
    /\ ret.path \in DOMAIN vpk.tree.files
    /\ is_wav(ret.path)
    /\ vpk.tree.files[ret.path].file_parts # <<>>

\* The bytes skipped at the start of the first part, as the stream path
\* counts them
SkippedOf(entry) ==
    IF entry.file_parts[1].entry_length_uncompressed > 0
       /\ entry.file_parts[1].archive_index \in DOMAIN archives
    THEN seek_to_wav_data(archives[entry.file_parts[1].archive_index],
                          entry.file_parts[1].entry_offset).val
    ELSE 0

\* total_len after the first n parts: the entry_length of every part with
\* entry_length_uncompressed > 0, less the bytes skipped
RECURSIVE LengthSum(_, _)
LengthSum(parts, n) ==
    IF n = 0 THEN 0
    ELSE LengthSum(parts, n - 1)
         + (IF parts[n].entry_length_uncompressed > 0
            THEN parts[n].entry_length ELSE 0)

RunningTotal(entry, n) == LengthSum(entry.file_parts, n) - SkippedOf(entry)

\* original_size of the CAM entry the call works with
OriginalSize(entry) == U32Nat(CamEntryFor(vpk, entry).cam.original_size)

\* The call succeeded
Delivered == ret.tag \in {"Some", "Ok"}

\* What the call delivered: the buffer of read_file, the output file of the
\* extractions
Assembled == IF ret.op = "VPKRespawn::read_file" THEN data.bytes ELSE out

\* C21: for a WAV target whose running total of part data exceeds the
\* original_size of its CAM entry, read_file, extract_file and
\* extract_file_mem_map each deliver a result - header and data - that is
\* exactly original_size bytes long.
C21_WavTruncation ==
    (/\ WavCall
     /\ Delivered
     /\ CamEntryFor(vpk, vpk.tree.files[ret.path]).cam.original_size[1] < 32768
     /\ RunningTotal(vpk.tree.files[ret.path],
                     Len(vpk.tree.files[ret.path].file_parts))
           > OriginalSize(vpk.tree.files[ret.path]))
        => Len(Assembled) = OriginalSize(vpk.tree.files[ret.path])

\* read_file alone cuts the whole buffer: its result is original_size long.
C21_ReadFileCut ==
    (/\ WavCall
     /\ ret.op = "VPKRespawn::read_file"
     /\ Delivered
     /\ CamEntryFor(vpk, vpk.tree.files[ret.path]).cam.original_size[1] < 32768
     /\ OriginalSize(vpk.tree.files[ret.path]) > 0
     /\ RunningTotal(vpk.tree.files[ret.path],
                     Len(vpk.tree.files[ret.path].file_parts))
           > OriginalSize(vpk.tree.files[ret.path]))
        => Len(Assembled) = OriginalSize(vpk.tree.files[ret.path])

\* extract_file on one part of 4 data bytes with original_size 3: the file
\* holds the 44 bytes of the header and 3 bytes of data.
C21_WitnessExtract ==
    /\ WavCall
    /\ ret.op = "VPKRespawn::extract_file"
    /\ Delivered
    /\ vpk.tree.files[ret.path].preload_length = 0
    /\ Len(vpk.tree.files[ret.path].file_parts) = 1
    /\ OriginalSize(vpk.tree.files[ret.path]) = 3
    /\ RunningTotal(vpk.tree.files[ret.path], 1) = 4
    /\ Len(out) = 47

---------------------------------------------------------------------------
(* The CAM cache: get_cam and get_cam_entry called from several threads    *)

InitCacheAll ==
    /\ CAM_MAP = EmptyMap
    /\ lock = Unlocked
    /\ calls \in [Threads ->
                    {NewCall("get_cam_entry", path, k) :
                        path \in CachePaths, k \in CamOffsets}
                    \cup {NewCall("get_cam", path, 0) : path \in CachePaths}]
    /\ parses = [path \in CachePaths |-> 0]
    /\ wav_entry = NoCamEntry
    /\ cam_file = <<>>
    /\ cam = NoCam
    /\ file = <<>>
    /\ pos = 0
    /\ out = <<>>
    /\ hdr = NoHeader
    /\ probes = NoProbes
    /\ ret = NoRet
    /\ vpk = NoVPK
    /\ back = NoVPK
    /\ archives = EmptyMap
    /\ opened = {}
    /\ data = None

\* get_cam: CAM_MAP.read(), granted while nobody writes
GetCamReadLock(t) ==
    /\ calls[t].op = "get_cam"
    /\ calls[t].pc = "start"
    /\ lock.writer = 0
    /\ lock' = [lock EXCEPT !.readers = @ \cup {t}]
    /\ calls' = [calls EXCEPT ![t].pc = "read"]
    /\ UNCHANGED <<CAM_MAP, parses, notCache>>

\* get_cam: the block under the read guard returns a clone of a cached
\* sidecar; the guard is dropped at the end of the block either way.
GetCamReadCheck(t) ==
    /\ calls[t].op = "get_cam"
    /\ calls[t].pc = "read"
    /\ lock' = drop_read_guard(lock, t)
    /\ calls' = [calls EXCEPT ![t] =
                    IF calls[t].cam_path \in DOMAIN CAM_MAP
                    THEN [calls[t] EXCEPT !.pc = "done", !.tag = "Ok",
                                          !.via = "read"]
                    ELSE [calls[t] EXCEPT !.pc = "open", !.missed = TRUE]]
    /\ UNCHANGED <<CAM_MAP, parses, notCache>>

\* get_cam: File::open and VPKRespawnCam::from_file, with no lock held
GetCamOpenAndParse(t) ==
    /\ calls[t].op = "get_cam"
    /\ calls[t].pc = "open"
    /\ IF calls[t].cam_path \notin DOMAIN CamDisk
       THEN /\ calls' = [calls EXCEPT ![t] =
                    Failed(calls[t], "Failed to open CAM file", "open")]
            /\ UNCHANGED parses
       ELSE /\ calls' = [calls EXCEPT
                    ![t].pc = "parsed",
                    ![t].parsed = CamParsed[calls[t].cam_path]]
            /\ parses' = [parses EXCEPT ![calls[t].cam_path] = @ + 1]
    /\ UNCHANGED <<CAM_MAP, lock, notCache>>

\* get_cam: CAM_MAP.write(), granted while nobody reads or writes
GetCamWriteLock(t) ==
    /\ calls[t].op = "get_cam"
    /\ calls[t].pc = "parsed"
    /\ lock = Unlocked
    /\ lock' = [lock EXCEPT !.writer = t]
    /\ calls' = [calls EXCEPT ![t].pc = "insert"]
    /\ UNCHANGED <<CAM_MAP, parses, notCache>>

\* get_cam: a sidecar that parsed is inserted, whatever the map holds; the
\* guard is dropped and the result of from_file is returned.
GetCamInsert(t) ==
    /\ calls[t].op = "get_cam"
    /\ calls[t].pc = "insert"
    /\ CAM_MAP' = IF calls[t].parsed.tag = "Ok"
                  THEN Insert(CAM_MAP, calls[t].cam_path,
                              [entries |-> calls[t].parsed.entries])
                  ELSE CAM_MAP
    /\ lock' = [lock EXCEPT !.writer = 0]
    /\ calls' = [calls EXCEPT ![t].pc = "done",
                              ![t].tag = IF calls[t].parsed.tag = "Ok"
                                         THEN "Ok" ELSE "Err",
                              ![t].via = "parse"]
    /\ UNCHANGED <<parses, notCache>>

get_cam(t) ==
    \/ GetCamReadLock(t)
    \/ GetCamReadCheck(t)
    \/ GetCamOpenAndParse(t)
    \/ GetCamWriteLock(t)
    \/ GetCamInsert(t)

NextCacheAll == \E t \in Threads : get_cam(t) \/ get_cam_entry(t)

SpecCacheAll == InitCacheAll /\ [][NextCacheAll]_vars

---------------------------------------------------------------------------
(* Claims about get_cam (SpecCacheAll)                                     *)

\* C22: with concurrent get_cam calls for one sidecar path, and get_cam
\* next to get_cam_entry, the sidecar is parsed at most once, and get_cam
\* never parses a path another caller has inserted.
C22_GetCamParsedOnce ==
    /\ \A path \in ParsingPaths : parses[path] <= 1
    /\ \A t \in Threads :
          (calls[t].op = "get_cam" /\ calls[t].pc = "parsed")
             => calls[t].cam_path \notin DOMAIN CAM_MAP

\* What get_cam and get_cam_entry keep: every change of CAM_MAP is made by
\* the thread that holds the write lock, and a call that found the path in
\* the cache under the read lock does not parse.
C22_InsertUnderWriteLock ==
    \A t \in Threads :
       /\ calls[t].pc = "insert" => lock.writer = t /\ lock.readers = {}
       /\ calls[t].via = "read" => calls[t].parsed = NoCam

\* Two get_cam calls for the sidecar that parses both missed and both
\* parsed it.
C22_WitnessTwice ==
    /\ \A t \in {1, 2} :
          /\ calls[t].op = "get_cam"
          /\ calls[t].cam_path = "a.cam"
          /\ calls[t].pc = "done"
          /\ calls[t].via = "parse"
    /\ parses["a.cam"] = 2

---------------------------------------------------------------------------
(* Claims about truncated trees and the cursor after a tree (SpecTree)     *)

FromFileOps == {"VPKVersion1::from_file", "VPKRespawn::from_file"}

\* from_file has just returned Ok for the directory file
LoadedOk == ret.op \in FromFileOps /\ ret.tag = "Ok" /\ vpk.origin = "file"

\* The offset at which the tree region of the loaded file ends
TreeEnd == HeaderSize(vpk.kind) + vpk.header.tree_size

\* C23: VPKTree::from returns an error whenever the file ends before the
\* start + size bytes of the tree region have been read; it never returns
\* Ok with a preload run shorter than the entry declares.
C23_TruncatedRejected ==
    LoadedOk
        => /\ Len(file) >= TreeEnd
           /\ \A path \in DOMAIN vpk.tree.files :
                 vpk.tree.files[path].preload_length > 0
                    => /\ path \in DOMAIN vpk.tree.preload
                       /\ Len(vpk.tree.preload[path])
                            = vpk.tree.files[path].preload_length

\* What does hold after Ok: every entry with a preload length above 0 has a
\* preload run in the table, however short that run is.
C23_EntryRecordsWhole ==
    (ret.op \in FromFileOps /\ ret.tag = "Ok" /\ vpk.origin = "file")
        => \A path \in DOMAIN vpk.tree.files :
              vpk.tree.files[path].preload_length > 0
                 => path \in DOMAIN vpk.tree.preload

\* A file cut inside its tree region is loaded with Ok.
C23_WitnessCut ==
    /\ LoadedOk
    /\ Len(file) < TreeEnd
    /\ DOMAIN vpk.tree.files # {}

\* C26: whenever VPKTree::from(file, start, size) returns Ok, the stream
\* position is exactly start + size.
C26_TreeConsumedExactly == LoadedOk => pos = TreeEnd

\* What the loop condition gives: a tree whose zero bytes close every level
\* at the offset the header announces is left at start + size.
C26_ExactWhenSized ==
    \A kind \in {"v1", "respawn"}, items \in ItemLists, final \in BOOLEAN :
        (LoadedOk /\ file = TreeFile(kind, items, final, 0))
            => pos = TreeEnd

\* A whole file is loaded with Ok and the cursor is left beyond start + size.
C26_WitnessBeyond ==
    /\ LoadedOk
    /\ Len(file) > TreeEnd
    /\ pos > TreeEnd

\* A whole file is loaded with Ok and the cursor is left before start + size.
C26_WitnessBefore ==
    /\ LoadedOk
    /\ Len(file) >= TreeEnd
    /\ pos < TreeEnd

---------------------------------------------------------------------------
(* Claims comparing the three reconstruction operations (SpecRead)         *)

\* Mappings of the archive files of the disk, the directory file included
FullMappings == Insert(archives, 65407, file)

\* What read_file returns for the path and the build of the call made
ReadFileOf(file_path, checks) ==
    IF vpk.kind = "v1"
    THEN VPKVersion1_read_file(vpk, file, archives, file_path)
    ELSE VPKRespawn_read_file(vpk, archives, file_path, checks)

\* What extract_file does for the path and the build of the call made
ExtractFileOf(file_path, checks) ==
    IF vpk.kind = "v1"
    THEN VPKVersion1_extract_file(vpk, file, archives, file_path)
    ELSE VPKRespawn_extract_file(vpk, archives, file_path, checks)

\* What extract_file_mem_map does, given mappings of the same archive files
MemMapOf(file_path, checks) ==
    IF vpk.kind = "v1"
    THEN VPKVersion1_extract_file_mem_map(
             vpk, Mappings(FullMappings, archives), file_path)
    ELSE VPKRespawn_extract_file_mem_map(
             vpk, Mappings(FullMappings, archives), file_path, checks)

\* An extraction has succeeded on an input on which the other two
\* operations succeed as well.
AllThreeSucceed ==
    /\ ret.op \in ExtractOps
    /\ ret.tag = "Ok"
    /\ ret.op \in MemMapOps => ret.mmaps \in {archives, FullMappings}
    /\ ReadFileOf(ret.path, ret.checks).tag = "Some"
    /\ ExtractFileOf(ret.path, ret.checks).tag = "Ok"
    /\ MemMapOf(ret.path, ret.checks).tag = "Ok"

\* C24: whenever read_file, extract_file and extract_file_mem_map all
\* succeed on an input, the bytes left in the output file by either
\* extraction are the bytes read_file returns.
C24_OperationsAgree ==
    AllThreeSucceed => out = ReadFileOf(ret.path, ret.checks).data

\* The same for every target that is not a WAV of a Respawn archive.
C24_AgreeExceptWav ==
    (AllThreeSucceed /\ ~(vpk.kind = "respawn" /\ is_wav(ret.path)))
        => out = ReadFileOf(ret.path, ret.checks).data

\* All three succeed on a WAV target and the extraction left other bytes
\* than read_file returns.
C24_WitnessWav ==
    /\ AllThreeSucceed
    /\ vpk.kind = "respawn"
    /\ is_wav(ret.path)
    /\ out # ReadFileOf(ret.path, ret.checks).data

---------------------------------------------------------------------------
(* Claims about the lengths a V1 read delivers (SpecRead)                  *)

\* A V1 call on an entry of the tree
V1Call(op) ==
    /\ ret.op = op
    /\ vpk.kind = "v1"
    /\ ret.path \in DOMAIN vpk.tree.files

\* The copy loop of extract_file has run: the entry has data, its preload
\* run was found and its archive was opened.
V1Copied ==
    /\ V1Call("VPKVersion1::extract_file")
    /\ vpk.tree.files[ret.path].entry_length > 0
    /\ ret.tag \in {"Ok", "BadData"}

\* C25: the copy loop of extract_file ends either with exactly entry_length
\* data bytes written to the output or with BadData as soon as a read
\* returns no byte; and whenever read_file returns Some(buf), the length of
\* buf is preload_length + entry_length.
C25_ExactCopy ==
    /\ V1Copied
         => \/ Len(out) = Len(PreloadOf(ret.path))
                            + vpk.tree.files[ret.path].entry_length
            \/ /\ ret.tag = "BadData"
               /\ ret.why = "Archive is empty"
               /\ Len(out) < Len(PreloadOf(ret.path))
                               + vpk.tree.files[ret.path].entry_length
    /\ (V1Call("VPKVersion1::read_file") /\ ret.tag = "Some")
         => Len(data.bytes) = vpk.tree.files[ret.path].preload_length
                                + vpk.tree.files[ret.path].entry_length

\* The part of C25 about the copy loop of extract_file
C25_CopyLoopExact ==
    V1Copied
        => \/ Len(out) = Len(PreloadOf(ret.path))
                           + vpk.tree.files[ret.path].entry_length
           \/ /\ ret.tag = "BadData"
              /\ ret.why = "Archive is empty"
              /\ Len(out) < Len(PreloadOf(ret.path))
                              + vpk.tree.files[ret.path].entry_length

\* read_file returned a buffer shorter than preload_length + entry_length.
C25_WitnessShortRead ==
    /\ V1Call("VPKVersion1::read_file")
    /\ ret.tag = "Some"
    /\ Len(data.bytes) < vpk.tree.files[ret.path].preload_length
                           + vpk.tree.files[ret.path].entry_length

\* extract_file met the end of the archive before entry_length bytes.
C25_WitnessEmptyRead ==
    /\ V1Copied
    /\ ret.tag = "BadData"
    /\ ret.why = "Archive is empty"
    /\ out # <<>>

---------------------------------------------------------------------------
(* The CAM cache under fair scheduling                                     *)

\* Each thread is an operating-system thread running one call: a thread
\* whose next step stays possible is scheduled in the end.
FairSpecCacheAll ==
    SpecCacheAll /\ \A t \in Threads : WF_vars(get_cam(t) \/ get_cam_entry(t))

\* The calls that are waiting for, or are about to request, the write lock
WantsWrite(t) ==
    \/ calls[t].op = "get_cam_entry" /\ calls[t].pc = "missed"
    \/ calls[t].op = "get_cam" /\ calls[t].pc = "parsed"

\* No call requests the write lock while it holds the read lock, and a call
\* that has returned holds no lock.
LockDiscipline ==
    \A t \in Threads :
        /\ WantsWrite(t) => t \notin lock.readers
        /\ calls[t].pc = "done" => t \notin lock.readers /\ lock.writer # t

AllReturned == \A t \in Threads : calls[t].pc = "done"

\* C27: under fair scheduling every get_cam and get_cam_entry call
\* eventually returns; no call requests the write lock while it still holds
\* the read lock, and every return path has released the lock it acquired.
C27_CallsComplete == []LockDiscipline /\ <>[](AllReturned /\ lock = Unlocked)

\* Two calls for the same path have both returned, one of them after it
\* missed under the read lock and waited for the write lock.
C27_Witness ==
    /\ AllReturned
    /\ lock = Unlocked
    /\ calls[1].cam_path = calls[2].cam_path
    /\ calls[1].op = "get_cam"
    /\ calls[2].op = "get_cam_entry"
    /\ calls[1].missed
    /\ calls[2].missed
    /\ calls[2].via = "recheck"

---------------------------------------------------------------------------
(* Claims about the u64 and u32 arithmetic of a WAV read (SpecRead)        *)

\* The call ended in the panic of a subtraction that went below zero
Underflowed(why) == WavCall /\ ret.tag = "panic" /\ ret.why = why

\* C28: in the length bookkeeping of a Respawn WAV, the first fragment's
\* entry_length minus the skipped byte count never goes below zero, and
\* neither does the truncated length entry_len + original_size - total_len
\* of any fragment.
C28_NoUnderflow == ~Underflowed("entry_len") /\ ~Underflowed("new_len")

\* entry_length - skipped goes below zero: the first part is shorter than
\* the bytes seek_to_wav_data skips.
C28_WitnessEntryLen ==
    /\ Underflowed("entry_len")
    /\ vpk.tree.files[ret.path].file_parts[1].entry_length
         < SkippedOf(vpk.tree.files[ret.path])

\* entry_len + original_size - total_len goes below zero: the parts before
\* the last one already hold more than original_size bytes.
C28_WitnessNewLen ==
    /\ Underflowed("new_len")
    /\ Len(vpk.tree.files[ret.path].file_parts) = 2
    /\ RunningTotal(vpk.tree.files[ret.path], 1)
         > OriginalSize(vpk.tree.files[ret.path])

\* The call works with VPKRespawnCamEntry::default: archive_cams has no
\* entry for the first part of the file.
DefaultCamCall ==
    /\ WavCall
    /\ LET part == vpk.tree.files[ret.path].file_parts[1]
       IN  ~(/\ part.archive_index \in DOMAIN vpk.archive_cams
             /\ part.entry_offset
                  \in DOMAIN vpk.archive_cams[part.archive_index].entries)

\* The sum of entry_length_uncompressed over the parts, as an integer
RECURSIVE UncompressedSum(_, _)
UncompressedSum(parts, n) ==
    IF n = 0 THEN 0
    ELSE UncompressedSum(parts, n - 1) + parts[n].entry_length_uncompressed

\* C29: for a Respawn WAV entry with at least one fragment and no CAM entry,
\* VPKRespawnCamEntry::default followed by create_wav_header performs no
\* unsigned 32-bit underflow or overflow, and original_size is the sum of
\* the entry_length_uncompressed values of the fragments.
C29_DefaultCamNoWrap ==
    DefaultCamCall
        => LET entry == vpk.tree.files[ret.path]
               d == VPKRespawnCamEntry_default(entry)
           IN  /\ ~d.wrapped
               /\ ~create_wav_header(d.cam).wrapped
               /\ U32Nat(d.cam.original_size)
                    = UncompressedSum(entry.file_parts, Len(entry.file_parts))
               /\ ~(ret.tag = "panic" /\ ret.why = "overflow")

\* What holds of the default entry: without a wrap in the sum, original_size
\* is the sum of the uncompressed lengths.
C29_OriginalSizeIsSum ==
    DefaultCamCall
        => LET entry == vpk.tree.files[ret.path]
               d == VPKRespawnCamEntry_default(entry)
           IN  U32Nat(d.cam.original_size)
                 = UncompressedSum(entry.file_parts, Len(entry.file_parts))

\* A WAV of 3 bytes without a CAM entry, read by a build with overflow
\* checks: original_size - 44 panics.
C29_WitnessBelow44 ==
    /\ DefaultCamCall
    /\ ret.checks
    /\ UncompressedSum(vpk.tree.files[ret.path].file_parts,
                       Len(vpk.tree.files[ret.path].file_parts)) = 3
    /\ VPKRespawnCamEntry_default(vpk.tree.files[ret.path]).wrapped
    /\ ret.tag = "panic"
    /\ ret.why = "overflow"

---------------------------------------------------------------------------
(* Claims about a write_dir that fails (SpecTree)                          *)

\* write_dir returned an error and a file was at output_path before the call
FailedOverExisting ==
    /\ ret.op = "write_dir"
    /\ ret.tag # "Ok"
    /\ ret.existing # <<>>

\* C30: if write_dir returns an error, a file that already existed at
\* output_path still has exactly the contents it had before the call.
C30_FailedWriteKeepsFile == FailedOverExisting => out = ret.existing

\* What the call leaves of the earlier file: nothing.  The file holds only
\* bytes that write_dir wrote, beginning with the header.
C30_FailedWriteReplacesFile ==
    FailedOverExisting
        => /\ out # ret.existing
           /\ Len(out) >= HeaderSize(vpk.kind)
           /\ SubSeq(out, 1, 4) = MagicBytes

\* write_dir failed on an entry whose terminator is not 0xFFFF, and the
\* earlier file is gone.
C30_WitnessLost ==
    /\ FailedOverExisting
    /\ ret.tag = "InvalidEntryTerminator"
    /\ ret.existing = ExistingFile
    /\ out # ExistingFile

=============================================================================
